---- MODULE Spec2Model ----
(***************************************************************************)
(* CHE tools: the binary codec of the team file (tag CETD) and the         *)
(* tournament file (tag CEMD), the tournament generator with its block     *)
(* relocation, and the application state around them.                      *)
(*                                                                         *)
(* Byte buffers are modelled exactly but sparsely: a buffer is a length, a *)
(* fill byte and the list of writes made to it, in program order; the byte *)
(* at an offset is the one of the last write covering it (ByteAt).  A      *)
(* write either carries its bytes or copies a range of another buffer.     *)
(* Strings are sequences of UTF-16 code units.                             *)
(***************************************************************************)
EXTENDS Integers, Sequences, FiniteSets, TLC

\* ------------------------------------------------------------------ values
\* JavaScript's undefined (a typed-array read outside the array, an unset property)
Undef == -1
\* JavaScript's null (templateData before a load)
Null == [len |-> -1, fill |-> 0, layers |-> <<>>]

Max2(a, b) == IF a >= b THEN a ELSE b
Min2(a, b) == IF a <= b THEN a ELSE b

\* the largest element of a non-empty set of integers
MaxOf(S) == CHOOSE x \in S : \A y \in S : y <= x

\* ------------------------------------------------------------------ buffers
EmptyBuf == [len |-> 0, fill |-> 0, layers |-> <<>>]

\* new Uint8Array(n): n zero bytes
NewBuf(n) == [len |-> n, fill |-> 0, layers |-> <<>>]

\* one write of explicit bytes at offset at
DataLayer(at, data) ==
    [at |-> at, n |-> Len(data), kind |-> "data", data |-> data, src |-> EmptyBuf, from |-> 0]

\* one write copying n bytes of src, from offset from, to offset at
CopyLayer(at, src, from, n) ==
    [at |-> at, n |-> n, kind |-> "copy", data |-> <<>>, src |-> src, from |-> from]

\* bytes[o] of a Uint8Array: undefined outside the array
RECURSIVE ByteAt(_, _)
ByteAt(b, o) ==
    IF o < 0 \/ o >= b.len THEN Undef
    ELSE LET hits == {i \in 1..Len(b.layers) :
                        b.layers[i].at <= o /\ o < b.layers[i].at + b.layers[i].n}
         IN  IF hits = {} THEN b.fill
             ELSE LET l == b.layers[MaxOf(hits)]
                  IN  IF l.kind = "data" THEN l.data[o - l.at + 1]
                      ELSE ByteAt(l.src, l.from + (o - l.at))

\* output[at + k] = data[k] for every k: writes outside a typed array are ignored
PutBytes(b, at, data) ==
    IF Len(data) = 0 THEN b
    ELSE [b EXCEPT !.layers = Append(@, DataLayer(at, data))]

\* output.set(src.slice(from, from + n), at), and the byte-by-byte copy loops
PutCopy(b, at, src, from, n) ==
    IF n <= 0 THEN b
    ELSE [b EXCEPT !.layers = Append(@, CopyLayer(at, src, from, n))]

\* ArrayBuffer.prototype.slice / TypedArray.prototype.slice: negative indices
\* count from the end, both ends are clamped, the result is a fresh copy
SliceIndex(len, i) == IF i < 0 THEN Max2(len + i, 0) ELSE Min2(i, len)
Slice(b, begin, end) ==
    LET first == SliceIndex(b.len, begin)
        final == SliceIndex(b.len, end)
        n     == Max2(final - first, 0)
    IN  [len |-> n, fill |-> 0,
         layers |-> IF n = 0 THEN <<>> ELSE <<CopyLayer(0, b, first, n)>>]

\* the 4 bytes of a 32-bit value, little-endian (DataView.setUint32(.., true))
LE32(v) == << v % 256, (v \div 256) % 256, (v \div 65536) % 256, (v \div 16777216) % 256 >>

\* 32-bit values are kept as their bit pattern read as a two's-complement integer
\* (TLC's integers are 32-bit): 0xFFFFFFFF is -1, 0xCDCDCDCD is -842150451.
Bits32(b, off) ==
    ByteAt(b, off) + 256 * ByteAt(b, off + 1) + 65536 * ByteAt(b, off + 2)
        + 16777216 * (IF ByteAt(b, off + 3) >= 128 THEN ByteAt(b, off + 3) - 256
                      ELSE ByteAt(b, off + 3))

\* DataView.getUint32(off, true): the pattern of an unsigned value; compare it
\* with ULess, never with <
getUint32(b, off) == Bits32(b, off)

\* u < n for the unsigned value with pattern u and a small n >= 0
ULess(u, n) == u >= 0 /\ u < n

readUint8(b, off) == IF off >= b.len THEN 0 ELSE ByteAt(b, off)

readUint16(b, off) ==
    IF off + 2 > b.len THEN 0 ELSE ByteAt(b, off) + 256 * ByteAt(b, off + 1)

\* bytes[o] | (bytes[o+1] << 8) | (bytes[o+2] << 16) | (bytes[o+3] << 24): the
\* result of | is a signed 32-bit number, negative when the top byte is >= 0x80;
\* it is the number the pattern denotes
readUint32(b, off) ==
    IF off + 4 > b.len THEN 0 ELSE Bits32(b, off)

\* ------------------------------------------------------------------ strings
\* readString: one character per non-zero byte inside the buffer
RECURSIVE readStringFrom(_, _, _, _)
readStringFrom(b, offset, length, i) ==
    IF i >= length THEN <<>>
    ELSE (IF offset + i < b.len /\ ByteAt(b, offset + i) # 0
             THEN <<ByteAt(b, offset + i)>> ELSE <<>>)
         \o readStringFrom(b, offset, length, i + 1)
readString(b, offset, length) == readStringFrom(b, offset, length, 0)

TYPE_TEAM == <<67, 69, 84, 68>>    \* "CETD"
TYPE_MATCH == <<67, 69, 77, 68>>   \* "CEMD"

\* JIS row/cell -> Unicode, the partial table of the decoder
jisToUnicode(row, cell) ==
    IF row = 4 /\ cell >= 1 /\ cell <= 83 THEN 12352 + cell - 1          \* 0x3040
    ELSE IF row = 5 /\ cell >= 1 /\ cell <= 86 THEN 12448 + cell - 1     \* 0x30A0
    ELSE IF row = 3 /\ cell >= 1 /\ cell <= 94 THEN 65281 + cell - 1     \* 0xFF01
    ELSE 0                                                               \* null

\* Shift-JIS double-byte code -> Unicode; 0 stands for null
sjisToUnicode(sjis) ==
    LET hi == (sjis \div 256) % 256
        lo == sjis % 256
        row0 == IF hi >= 129 /\ hi <= 159 THEN (hi - 129) * 2 + 1
                ELSE IF hi >= 224 /\ hi <= 239 THEN (hi - 224) * 2 + 63
                ELSE 0
    IN  IF row0 = 0 THEN 0
        ELSE IF lo >= 64 /\ lo <= 126 THEN jisToUnicode(row0, lo - 64 + 1)
        ELSE IF lo >= 128 /\ lo <= 158 THEN jisToUnicode(row0, lo - 128 + 64)
        ELSE IF lo >= 159 /\ lo <= 252 THEN jisToUnicode(row0 + 1, lo - 159 + 1)
        ELSE 0

\* Encoding.toUTF8, the table decoder, over the bytes of b from offset i on
RECURSIVE toUTF8From(_, _)
toUTF8From(b, i) ==
    IF i >= b.len THEN <<>>
    ELSE LET byte1 == ByteAt(b, i) IN
         IF byte1 = 0 THEN <<>>
         ELSE IF byte1 <= 127 THEN <<byte1>> \o toUTF8From(b, i + 1)
         ELSE IF byte1 >= 161 /\ byte1 <= 223
              THEN <<65377 + (byte1 - 161)>> \o toUTF8From(b, i + 1)   \* 0xFF61
         ELSE IF i + 1 >= b.len THEN toUTF8From(b, i + 1)
         ELSE LET unicode == sjisToUnicode(byte1 * 256 + ByteAt(b, i + 1))
              IN  (IF unicode # 0 THEN <<unicode>> ELSE <<63>>) \o toUTF8From(b, i + 2)
toUTF8(b) == toUTF8From(b, 0)

\* JIS row/cell -> Shift-JIS double-byte code
jisToSjis(row, cell) ==
    LET hi == IF row <= 62 THEN ((row + 1) \div 2) + 128 ELSE ((row - 63) \div 2) + 224
        lo == IF row % 2 = 1 THEN (IF cell <= 63 THEN cell + 63 ELSE cell + 64)
              ELSE cell + 158
    IN  hi * 256 + lo

hiraganaToSjis(unicode) == jisToSjis(4, (unicode - 12352) + 1)
katakanaToSjis(unicode) == jisToSjis(5, (unicode - 12448) + 1)
fullwidthToSjis(unicode) == jisToSjis(3, (unicode - 65281) + 1)

\* the curated ideograph table: UTF-16 code unit -> Shift-JIS code
UNICODE_TO_SJIS_MAP ==
       (19978 :> 36835) @@ (19979 :> 35258) @@ (20013 :> 37510) @@ (20102 :> 38841) @@
       (20154 :> 36972) @@ (20250 :> 35311) @@ (20301 :> 35018) @@ (20302 :> 37601) @@
       (20307 :> 37324) @@ (20316 :> 36332) @@ (20351 :> 36455) @@ (20445 :> 38363) @@
       (20449 :> 36941) @@ (20809 :> 36085) @@ (20837 :> 37884) @@ (20840 :> 37203) @@
       (20853 :> 38330) @@ (20869 :> 37856) @@ (20919 :> 38882) @@ (20986 :> 36719) @@
       (20995 :> 36974) @@ (20998 :> 38314) @@ (21021 :> 36745) @@ (21066 :> 36333) @@
       (21069 :> 37199) @@ (21091 :> 35989) @@ (21147 :> 38861) @@ (21151 :> 36087) @@
       (21152 :> 35265) @@ (21205 :> 37806) @@ (21213 :> 36767) @@ (21462 :> 36582) @@
       (21463 :> 36595) @@ (21491 :> 35141) @@ (21495 :> 36230) @@ (21512 :> 36231) @@
       (21517 :> 38588) @@ (21729 :> 35061) @@ (22120 :> 35565) @@ (22238 :> 35313) @@
       (22411 :> 35934) @@ (22580 :> 36842) @@ (22793 :> 38351) @@ (22806 :> 35407) @@
       (22823 :> 37349) @@ (22833 :> 36536) @@ (22987 :> 36462) @@ (23384 :> 37302) @@
       (23436 :> 35502) @@ (23450 :> 37608) @@ (23550 :> 37326) @@ (23567 :> 36780) @@
       (24038 :> 36278) @@ (24180 :> 37966) @@ (24230 :> 37752) @@ (24335 :> 36528) @@
       (24341 :> 35064) @@ (24369 :> 36579) @@ (24375 :> 35757) @@ (24382 :> 37477) @@
       (24460 :> 36067) @@ (24471 :> 37822) @@ (24481 :> 36068) @@ (24615 :> 37035) @@
       (25104 :> 37036) @@ (25126 :> 37101) @@ (25152 :> 36746) @@ (25246 :> 37360) @@
       (25731 :> 35970) @@ (25915 :> 36181) @@ (25943 :> 38003) @@ (25968 :> 37012) @@
       (26032 :> 36950) @@ (26085 :> 37882) @@ (26178 :> 36510) @@ (26356 :> 36184) @@
       (26368 :> 36293) @@ (26376 :> 35982) @@ (26412 :> 38523) @@ (26524 :> 35274) @@
       (26580 :> 36703) @@ (27231 :> 35648) @@ (27490 :> 36478) @@ (27491 :> 37043) @@
       (27494 :> 38288) @@ (27579 :> 35435) @@ (27770 :> 35976) @@ (27874 :> 37991) @@
       (28857 :> 37727) @@ (29105 :> 37965) @@ (29992 :> 38768) @@ (30002 :> 36194) @@
       (30058 :> 38100) @@ (30331 :> 37743) @@ (30446 :> 38618) @@ (30462 :> 36738) @@
       (30770 :> 38467) @@ (30828 :> 36196) @@ (30906 :> 35437) @@ (30913 :> 36517) @@
       (32066 :> 36681) @@ (32080 :> 35979) @@ (32232 :> 38354) @@ (32773 :> 36562) @@
       (33021 :> 37980) @@ (34920 :> 38236) @@ (35013 :> 37269) @@ (35023 :> 38816) @@
       (35215 :> 35659) @@ (35336 :> 35958) @@ (35430 :> 36494) @@ (35469 :> 37958) @@
       (35501 :> 37831) @@ (36605 :> 35961) @@ (36796 :> 36254) @@ (36861 :> 37575) @@
       (36865 :> 37271) @@ (36870 :> 35700) @@ (36895 :> 37292) @@ (36984 :> 37193) @@
       (37096 :> 38292) @@ (37325 :> 36708) @@ (37327 :> 38858) @@ (37389 :> 37763) @@
       (37507 :> 36709) @@ (37613 :> 35187) @@ (37682 :> 39006) @@ (38281 :> 38338) @@
       (38283 :> 35402) @@ (38291 :> 35540) @@ (38450 :> 38504) @@ (38500 :> 36764) @@
       (38598 :> 36695) @@ (38651 :> 37732) @@ (38899 :> 35257) @@ (38918 :> 36743) @@
       (39640 :> 36226)

\* the two bytes of a double-byte code
SjisBytes(sjis) == << (sjis \div 256) % 256, sjis % 256 >>

\* Encoding.toSJIS (the table-extended version that replaces the first one)
RECURSIVE toSJISFrom(_, _)
toSJISFrom(str, i) ==
    IF i > Len(str) THEN <<>>
    ELSE LET charCode == str[i]
             bytes ==
               IF charCode <= 127 THEN <<charCode>>
               ELSE IF charCode >= 65377 /\ charCode <= 65439
                    THEN <<161 + (charCode - 65377)>>
               ELSE IF charCode \in DOMAIN UNICODE_TO_SJIS_MAP
                    THEN SjisBytes(UNICODE_TO_SJIS_MAP[charCode])
               ELSE IF charCode >= 12353 /\ charCode <= 12435
                    THEN SjisBytes(hiraganaToSjis(charCode))
               ELSE IF charCode >= 12449 /\ charCode <= 12534
                    THEN SjisBytes(katakanaToSjis(charCode))
               ELSE IF charCode >= 65281 /\ charCode <= 65374
                    THEN SjisBytes(fullwidthToSjis(charCode))
               ELSE <<63>>
         IN  bytes \o toSJISFrom(str, i + 1)
\* an encoder that stores 0x00 where the program stores '?' (not the program's)
toSJISWithNul(str) ==
    LET bytes == toSJISFrom(str, 1)
    IN  [k \in 1..Len(bytes) |-> IF bytes[k] = 63 THEN 0 ELSE bytes[k]]

toSJIS(str) == toSJISFrom(str, 1)

\* the code units String.prototype.trim removes (WhiteSpace and LineTerminator)
JsWhiteSpace ==
    {9, 10, 11, 12, 13, 32, 160, 5760, 8232, 8233, 8239, 8287, 12288, 65279}
        \cup (8192..8202)

RECURSIVE TrimLeft(_)
TrimLeft(s) == IF Len(s) > 0 /\ s[1] \in JsWhiteSpace THEN TrimLeft(Tail(s)) ELSE s
RECURSIVE TrimRight(_)
TrimRight(s) ==
    IF Len(s) > 0 /\ s[Len(s)] \in JsWhiteSpace THEN TrimRight(SubSeq(s, 1, Len(s) - 1)) ELSE s
Trim(s) == TrimRight(TrimLeft(s))

\* str.replace(/\0.*$/, ''): cut at the first NUL that no line terminator follows
StripFromNul(s) ==
    LET cuts == {i \in 1..Len(s) :
                   s[i] = 0 /\ \A j \in (i + 1)..Len(s) : s[j] \notin {10, 13, 8232, 8233}}
    IN  IF cuts = {} THEN s
        ELSE SubSeq(s, 1, (CHOOSE i \in cuts : \A j \in cuts : i <= j) - 1)

\* readSJISString: skip leading 0x00 / 0xFF, decode up to the end of the field
RECURSIVE SkipPadding(_, _, _)
SkipPadding(b, start, limit) ==
    IF start < limit /\ start < b.len /\ ByteAt(b, start) \in {0, 255}
    THEN SkipPadding(b, start + 1, limit) ELSE start
readSJISString(b, offset, length) ==
    IF offset >= b.len THEN <<>>
    ELSE LET start == SkipPadding(b, offset, offset + length) IN
         IF start >= offset + length \/ start >= b.len THEN <<>>
         ELSE StripFromNul(Trim(toUTF8(Slice(b, start, offset + length))))

\* The replacement of Encoding.toUTF8 installed when TextDecoder is defined: the
\* bytes before the first 0x00 go through new TextDecoder('shift-jis').  Of the
\* platform decoder the single-byte cases are modelled: an ASCII byte or 0x80 is its
\* own code point, 0xA1..0xDF is half-width kana, a byte that can start no character
\* (0xA0, 0xFD..0xFF) is U+FFFD.  A lead byte (0x81..0x9F, 0xE0..0xFC) starts a
\* double-byte character, which goes through the platform's JIS X 0208 index: the
\* model has no such index and gives NotModelled for the rest of the input.
REPLACEMENT_CHAR == 65533      \* U+FFFD
NotModelled == -2
RECURSIVE nativeDecode(_, _)
nativeDecode(bytes, i) ==
    IF i > Len(bytes) THEN <<>>
    ELSE LET byte == bytes[i] IN
         IF byte <= 128 THEN <<byte>> \o nativeDecode(bytes, i + 1)
         ELSE IF byte >= 161 /\ byte <= 223
              THEN <<65377 + (byte - 161)>> \o nativeDecode(bytes, i + 1)
         ELSE IF (byte >= 129 /\ byte <= 159) \/ (byte >= 224 /\ byte <= 252)
              THEN <<NotModelled>>
         ELSE <<REPLACEMENT_CHAR>> \o nativeDecode(bytes, i + 1)

\* the bytes of a buffer from offset i up to the first 0x00 (or the end)
RECURSIVE BytesToNul(_, _)
BytesToNul(b, i) ==
    IF i >= b.len \/ ByteAt(b, i) = 0 THEN <<>>
    ELSE <<ByteAt(b, i)>> \o BytesToNul(b, i + 1)

toUTF8Native(b) == nativeDecode(BytesToNul(b, 0), 1)

\* Encoding.toUTF8 as the environment defines it: the table decoder, or the
\* replacement where TextDecoder exists
Backends == {"table", "TextDecoder"}
toUTF8In(backend, b) == IF backend = "table" THEN toUTF8(b) ELSE toUTF8Native(b)

\* readSJISString with Encoding.toUTF8 of the given environment
readSJISStringIn(backend, b, offset, length) ==
    IF offset >= b.len THEN <<>>
    ELSE LET start == SkipPadding(b, offset, offset + length) IN
         IF start >= offset + length \/ start >= b.len THEN <<>>
         ELSE StripFromNul(Trim(toUTF8In(backend, Slice(b, start, offset + length))))

\* ------------------------------------------------------------------ layout
SLOT_SIZE == 832                \* 0x340
SLOT_START_OFFSET == 1160       \* 0x488
OKE_BLOCK_START == 14524        \* 0x38BC
OKE_BLOCK_SIZE == 7872
MAX_OKE_BLOCKS == 31
TOTAL_FILE_SIZE == 266232
MAX_SLOTS == 16
\* the team count the packed result matrix is laid out for
MATRIX_TEAMS == 15
\* 0x488 + 15 * 832 = 0x3548, the offset the result matrix is read and written at
matchStartOffset == SLOT_START_OFFSET + (MATRIX_TEAMS * SLOT_SIZE)

\* ------------------------------------------------------------------ parsing
\* the 16 palette entries read at colorOffset, 4 bytes each
ReadColors(b, colorOffset) ==
    [i \in 0..15 |-> [r |-> ByteAt(b, colorOffset + i * 4),
                      g |-> ByteAt(b, colorOffset + i * 4 + 1),
                      b |-> ByteAt(b, colorOffset + i * 4 + 2),
                      a |-> ByteAt(b, colorOffset + i * 4 + 3)]]

NoHeader ==
    [magic |-> <<>>, headerSize |-> 0, version |-> <<>>, versionNum |-> 0,
     tournamentName |-> <<>>, teamCount |-> 0, matchCount |-> 0]

\* parseTeamFile: the whole file is one team; no team when the name is empty
parseTeamFile(buffer) ==
    LET colors == ReadColors(buffer, 576)              \* 0x240
        name   == readSJISString(buffer, 640, 24)      \* 0x280
        owner  == readSJISString(buffer, 664, 24)      \* 0x298
        team   == [name |-> name, owner |-> owner, colors |-> colors,
                   primaryColor |-> colors[1], sourceIndex |-> 0,
                   rawBuffer |-> Slice(buffer, 0, buffer.len),
                   isMatchDerived |-> FALSE, okeBlocks |-> <<>>]
    IN  [type |-> "team",
         header |-> [NoHeader EXCEPT !.magic = readString(buffer, 0, 4),
                                     !.versionNum = readUint32(buffer, 4)],
         teams |-> IF Len(name) > 0 /\ Len(Trim(name)) > 0 THEN <<team>> ELSE <<>>,
         results |-> <<>>,
         raw |-> buffer]

\* parseMatchTeamRecord: palette, name and owner of the slot at offset
parseMatchTeamRecord(b, offset) ==
    LET colors == ReadColors(b, offset + 20)           \* 0x14
    IN  [name |-> readSJISString(b, offset + 84, 26),  \* 0x54
         owner |-> readSJISString(b, offset + 108, 24),\* 0x6C
         colors |-> colors,
         primaryColor |-> colors[1]]

\* OKE_BLOCK_START + okeIndex * OKE_BLOCK_SIZE.  A very negative okeIndex is raised
\* to the first one for which both ends of the slice already lie before the start
\* of the buffer: the product stays a 32-bit number and the slice is the same
BlockOffset(okeIndex, len) ==
    OKE_BLOCK_START + Max2(okeIndex, 0 - (len \div OKE_BLOCK_SIZE) - 4) * OKE_BLOCK_SIZE

\* the blocks a slot references: entries okeNum = 0, 1, 2 at slot offset 0xB8 + 48 * okeNum
RECURSIVE parseOkeBlocks(_, _, _)
parseOkeBlocks(buffer, offset, okeNum) ==
    IF okeNum >= 3 THEN <<>>
    ELSE LET okeIndex    == readUint32(buffer, offset + 184 + okeNum * 48)
             blockOffset == BlockOffset(okeIndex, buffer.len)
         IN  (IF okeIndex < 31 /\ blockOffset + OKE_BLOCK_SIZE <= buffer.len
                 THEN << [originalIndex |-> okeIndex,
                          data |-> Slice(buffer, blockOffset, blockOffset + OKE_BLOCK_SIZE)] >>
                 ELSE <<>>)
             \o parseOkeBlocks(buffer, offset, okeNum + 1)

\* the team of the slot at offset, as parseMatchFile pushes it
parseMatchSlot(buffer, offset) ==
    LET rec == parseMatchTeamRecord(buffer, offset)
    IN  [name |-> rec.name, owner |-> rec.owner, colors |-> rec.colors,
         primaryColor |-> rec.primaryColor, sourceIndex |-> Undef,
         rawBuffer |-> Slice(buffer, offset, offset + SLOT_SIZE),
         isMatchDerived |-> TRUE,
         okeBlocks |-> parseOkeBlocks(buffer, offset, 0)]

\* a slot loop that also stops at a slot ending exactly at the buffer end (not the
\* program's)
RECURSIVE parseMatchSlotsShort(_, _, _)
parseMatchSlotsShort(buffer, teamCount, i) ==
    IF i >= teamCount THEN <<>>
    ELSE LET offset == SLOT_START_OFFSET + (i * SLOT_SIZE) IN
         IF offset + SLOT_SIZE >= buffer.len THEN <<>>
         ELSE <<parseMatchSlot(buffer, offset)>> \o parseMatchSlotsShort(buffer, teamCount, i + 1)

\* the slot loop of parseMatchFile: stops at the first slot past the buffer end
RECURSIVE parseMatchSlots(_, _, _)
parseMatchSlots(buffer, teamCount, i) ==
    IF i >= teamCount THEN <<>>
    ELSE LET offset == SLOT_START_OFFSET + (i * SLOT_SIZE) IN
         IF offset + SLOT_SIZE > buffer.len THEN <<>>
         ELSE <<parseMatchSlot(buffer, offset)>> \o parseMatchSlots(buffer, teamCount, i + 1)

\* a mirror that stores the result itself (not the program's)
SameRes(res) == res

\* the mirror of a result: win <-> loss, draw and none unchanged
OpponentRes(res) == IF res = 1 THEN 2 ELSE IF res = 2 THEN 1 ELSE res

\* the pairs (i, j), i < j < 15, in the order the two nested loops visit them
RECURSIVE PairsFrom(_, _)
PairsFrom(i, j) ==
    IF i >= MATRIX_TEAMS THEN <<>>
    ELSE IF j >= MATRIX_TEAMS THEN PairsFrom(i + 1, i + 2)
    ELSE << <<i, j>> >> \o PairsFrom(i, j + 1)
MatrixPairs == PairsFrom(0, 1)

\* the position (1-based) at which the decoding loop visits the pair (i, j), i < j
PairPos(i, j) == CHOOSE k \in 1..Len(MatrixPairs) : MatrixPairs[k] = <<i, j>>

\* the 2-bit value the loop reads for the pair it visits at position k: a byte is
\* read before every fourth pair (byteOffset counts them), bitPos runs 0, 2, 4, 6
PairRes(b, k) ==
    LET byteOffset == (k - 1) \div 4
        bitPos == 2 * ((k - 1) % 4)
        currentByte == IF matchStartOffset + byteOffset < b.len
                       THEN ByteAt(b, matchStartOffset + byteOffset) ELSE 0
    IN  (currentByte \div (2 ^ bitPos)) % 4

\* extractMatchResults: results[i][j] = 0 none, 1 win, 2 loss, 3 draw.  The loop
\* stores res at [i][j] and its mirror at [j][i] for every visited pair inside
\* teamCount; every other entry keeps the 0 of the initialisation
extractMatchResults(b, teamCount) ==
    [i \in 0..(teamCount - 1) |-> [j \in 0..(teamCount - 1) |->
        IF matchStartOffset >= b.len THEN 0
        ELSE IF i < j /\ j < MATRIX_TEAMS THEN PairRes(b, PairPos(i, j))
        ELSE IF j < i /\ i < MATRIX_TEAMS THEN OpponentRes(PairRes(b, PairPos(j, i)))
        ELSE 0]]

parseMatchFile(buffer) ==
    LET header == [magic |-> readString(buffer, 0, 4),
                   headerSize |-> readUint16(buffer, 4),
                   version |-> readString(buffer, 8, 8),
                   versionNum |-> 0,
                   tournamentName |-> toUTF8(Slice(buffer, 16, 48)),
                   teamCount |-> readUint32(buffer, 52),      \* 0x34
                   matchCount |-> readUint32(buffer, 56)]     \* 0x38
    IN  [type |-> "match",
         header |-> header,
         teams |-> parseMatchSlots(buffer, header.teamCount, 0),
         results |-> extractMatchResults(buffer, header.teamCount),
         raw |-> buffer]

\* what a parse call that throws leaves to its caller
ParseError ==
    [type |-> "error", header |-> NoHeader, teams |-> <<>>, results |-> <<>>, raw |-> EmptyBuf]

\* a parse that looks at the first 3 bytes of the tag only (not the program's parse)
parseByTagPrefix(buffer) ==
    LET magic == readString(buffer, 0, 3)
    IN  IF magic = SubSeq(TYPE_TEAM, 1, 3) THEN parseTeamFile(buffer)
        ELSE IF magic = SubSeq(TYPE_MATCH, 1, 3) THEN parseMatchFile(buffer)
        ELSE ParseError

\* parse: dispatch on the 4-byte tag
parse(buffer) ==
    LET magic == readString(buffer, 0, 4)
    IN  IF magic = TYPE_TEAM THEN parseTeamFile(buffer)
        ELSE IF magic = TYPE_MATCH THEN parseMatchFile(buffer)
        ELSE ParseError

\* ------------------------------------------------------------------ generation
OKE_MAGIC == <<200, 231, 172, 8>>      \* C8 E7 AC 08
OKE_FLAG == <<1, 0, 0, 0>>
\* the patterns of 0xFFFFFFFF (unset reference) and 0xCDCDCDCD (uninitialised memory)
UNSET == -1
FILL_CD == -842150451
BASE_OKE_INDICES == <<0, 1, 2>>

Zeros(n) == [i \in 1..n |-> 0]

\* the first n elements of a sequence (Array.prototype.slice(0, n))
Take(s, n) == SubSeq(s, 1, Min2(Len(s), n))

\* the empty relocation map; a map is a function from original index to new index
EmptyMap == [k \in {} |-> 0]
\* a map that forgets what is put (not the program's)
MapPutNothing(m, k, v) == m

MapPut(m, k, v) == [x \in (DOMAIN m) \cup {k} |-> IF x = k THEN v ELSE m[x]]

\* a counter that is set once and then carried from call to call (not the program's)
KeepOkeBlockIndex(counter) == IF counter = Undef THEN 0 ELSE counter

\* the value this._nextOkeBlockIndex gets at the start of a call
ResetOkeBlockIndex(counter) == 0

\* the state of one generateMatchFile call: the output buffer, the next free block
\* index, the relocation map, and the log of the blocks copied and dropped
StartContext(templateData, counter) ==
    [err |-> FALSE,
     output |-> PutCopy(NewBuf(TOTAL_FILE_SIZE), 0, templateData, 0,
                        Min2(templateData.len, TOTAL_FILE_SIZE)),
     next |-> ResetOkeBlockIndex(counter),
     indexMap |-> EmptyMap,
     placed |-> <<>>,
     dropped |-> <<>>]

\* the two tournament-name fields: zero-filled, then the first 16 / 24 encoded bytes
writeTournamentName(output, tournamentName) ==
    LET tNameBytes == toSJIS(tournamentName)
        o1 == PutBytes(output, 24, Zeros(16))                        \* 0x18..0x27
        o2 == PutBytes(o1, 24, Take(tNameBytes, 16))
        o3 == PutBytes(o2, 360, Zeros(24))                           \* 0x168..0x17F
    IN  PutBytes(o3, 360, Take(tNameBytes, 24))

\* counts with the matches of a double round robin (not the program's)
writeCountsDouble(output, teamCount) ==
    LET matchCount == teamCount * (teamCount - 1)
        o1 == PutBytes(output, 52, LE32(teamCount))
        o2 == PutBytes(o1, 56, LE32(matchCount))
        o3 == PutBytes(o2, 388, LE32(teamCount))
    IN  PutBytes(o3, 392, LE32(matchCount))

\* the team and match counts at 0x34 / 0x38 and 0x184 / 0x188
writeCounts(output, teamCount) ==
    LET matchCount == (teamCount * (teamCount - 1)) \div 2
        o1 == PutBytes(output, 52, LE32(teamCount))
        o2 == PutBytes(o1, 56, LE32(matchCount))
        o3 == PutBytes(o2, 388, LE32(teamCount))
    IN  PutBytes(o3, 392, LE32(matchCount))

\* the relocation loop over the blocks of the team in slot index, from block k on
RECURSIVE relocateBlocks(_, _, _, _)
relocateBlocks(ctx, okeBlocks, k, index) ==
    IF k > Len(okeBlocks) THEN ctx
    ELSE LET okeBlock == okeBlocks[k]
             newIndex == ctx.next
             destOffset == OKE_BLOCK_START + newIndex * OKE_BLOCK_SIZE
             copySize == Min2(OKE_BLOCK_SIZE, okeBlock.data.len)
         IN  IF okeBlock.originalIndex \in DOMAIN ctx.indexMap
             THEN relocateBlocks(ctx, okeBlocks, k + 1, index)
             ELSE IF newIndex < MAX_OKE_BLOCKS
             THEN IF destOffset + OKE_BLOCK_SIZE > TOTAL_FILE_SIZE
                  THEN relocateBlocks(ctx, okeBlocks, k + 1, index)
                  ELSE relocateBlocks(
                         [ctx EXCEPT
                            !.output = PutCopy(@, destOffset, okeBlock.data, 0, copySize),
                            !.indexMap = MapPut(@, okeBlock.originalIndex, newIndex),
                            !.next = @ + 1,
                            !.placed = Append(@, [originalIndex |-> okeBlock.originalIndex,
                                                  newIndex |-> newIndex,
                                                  slot |-> index,
                                                  data |-> okeBlock.data])],
                         okeBlocks, k + 1, index)
             ELSE relocateBlocks(
                    [ctx EXCEPT !.dropped = Append(@, [originalIndex |-> okeBlock.originalIndex,
                                                       slot |-> index])],
                    okeBlocks, k + 1, index)

\* the rewrite of the slot's 3 block-reference entries through the relocation map
RECURSIVE rewriteOkeIndices(_, _, _, _)
rewriteOkeIndices(output, indexMap, slotStart, okeNum) ==
    IF okeNum >= 3 THEN output
    ELSE LET okeIndexOffset == slotStart + 184 + okeNum * 48          \* 0xB8
             oldIndex == getUint32(output, okeIndexOffset)
         IN  rewriteOkeIndices(
               IF ULess(oldIndex, 31) /\ oldIndex \in DOMAIN indexMap
               THEN PutBytes(output, okeIndexOffset, LE32(indexMap[oldIndex]))
               ELSE output,
               indexMap, slotStart, okeNum + 1)

\* a tournament-origin team: the raw slot copied, its blocks relocated
writeMatchTeam(ctx, team, index, slotStart) ==
    LET src == team.rawBuffer
        copied == [ctx EXCEPT !.output = PutCopy(@, slotStart, src, 0, Min2(SLOT_SIZE, src.len))]
    IN  IF Len(team.okeBlocks) > 0
        THEN LET moved == relocateBlocks(copied, team.okeBlocks, 1, index)
             IN  [moved EXCEPT !.output = rewriteOkeIndices(@, moved.indexMap, slotStart, 0)]
        ELSE copied

\* the team-file -> slot field remap: <<source offset, slot offset, length>>
copyMap == << <<576, 20, 64>>, <<640, 84, 24>>, <<664, 108, 24>> >>

RECURSIVE copyFields(_, _, _, _)
copyFields(output, src, slotStart, k) ==
    IF k > Len(copyMap) THEN output
    ELSE LET srcOff == copyMap[k][1]
             dstOff == copyMap[k][2]
             len == copyMap[k][3]
         IN  copyFields(PutCopy(output, slotStart + dstOff, src, srcOff,
                                Min2(len, Max2(src.len - srcOff, 0))),
                        src, slotStart, k + 1)

\* the default initialisation of the 3 block-reference entries of a team-file team
RECURSIVE initOkeSummary(_, _, _)
initOkeSummary(output, slotStart, okeNum) ==
    IF okeNum >= 3 THEN output
    ELSE LET okeOffset == slotStart + 184 + (okeNum * 48)
             currentIndex == getUint32(output, okeOffset)
         IN  initOkeSummary(
               IF currentIndex = UNSET \/ currentIndex = FILL_CD
               THEN PutBytes(PutBytes(PutBytes(PutBytes(output,
                        okeOffset, LE32(BASE_OKE_INDICES[okeNum + 1])),
                        okeOffset + 4, OKE_MAGIC),
                        okeOffset + 8, OKE_FLAG),
                        okeOffset + 12, Zeros(36))
               ELSE output,
               slotStart, okeNum + 1)

\* a team-file-origin team: palette, name and owner remapped, references defaulted
writeTeamFileTeam(ctx, team, index, slotStart) ==
    [ctx EXCEPT !.output = initOkeSummary(copyFields(@, team.rawBuffer, slotStart, 1),
                                          slotStart, 0)]

\* the body of the forEach over teams.slice(0, 16)
writeTeam(ctx, team, index) ==
    LET slotStart == SLOT_START_OFFSET + (index * SLOT_SIZE)
    IN  IF slotStart + SLOT_SIZE > TOTAL_FILE_SIZE THEN ctx
        ELSE IF team.isMatchDerived /\ team.rawBuffer # Null
             THEN writeMatchTeam(ctx, team, index, slotStart)
        ELSE IF team.rawBuffer # Null /\ ~team.isMatchDerived
             THEN writeTeamFileTeam(ctx, team, index, slotStart)
        ELSE ctx

RECURSIVE writeTeams(_, _, _)
writeTeams(ctx, teams, index) ==
    \* (the test on ctx.next is never true: it makes TLC evaluate ctx before descending)
    IF index >= Len(teams) \/ ctx.next < 0 THEN ctx
    ELSE writeTeams(writeTeam(ctx, teams[index + 1], index), teams, index + 1)

\* the packing loop of the result matrix: every pair is written as 0 (none), a byte
\* is stored after every fourth pair and once more for the pairs left over
packedResults ==
    [m \in 1..((Len(MatrixPairs) \div 4) + (IF Len(MatrixPairs) % 4 > 0 THEN 1 ELSE 0)) |-> 0]
writeMatchResults(output) == PutBytes(output, matchStartOffset, packedResults)

\* a failure that clears the counter on its way out (not the program's)
TemplateMissingResets(counter) ==
    [err |-> TRUE, output |-> EmptyBuf, next |-> 0, indexMap |-> EmptyMap,
     placed |-> <<>>, dropped |-> <<>>]

\* generateMatchFile without a template: the call throws before anything else
TemplateMissing(counter) ==
    [err |-> TRUE, output |-> EmptyBuf, next |-> counter, indexMap |-> EmptyMap,
     placed |-> <<>>, dropped |-> <<>>]

\* generateMatchFile(teams, tournamentName), given templateData and the value of
\* _nextOkeBlockIndex the earlier calls left; next is the value this call leaves
generateMatchFile(teams, tournamentName, tmpl, counter) ==
    IF tmpl = Null THEN TemplateMissing(counter)
    ELSE LET start == StartContext(tmpl, counter)
             teamCount == Min2(Len(teams), MAX_SLOTS)
             head == [start EXCEPT
                        !.output = writeCounts(writeTournamentName(@, tournamentName),
                                               teamCount)]
         IN  [writeTeams(head, Take(teams, MAX_SLOTS), 0) EXCEPT
                !.output = writeMatchResults(@)]

\* the size generateTeamFile reserves for a team without raw data
TEAM_FILE_SIZE == 24512

\* totalSize: the byte length of every raw buffer, 24512 for a team that has none
RECURSIVE totalSize(_, _)
totalSize(teams, k) ==
    IF k > Len(teams) THEN 0
    ELSE (IF teams[k].rawBuffer # Null THEN teams[k].rawBuffer.len ELSE TEAM_FILE_SIZE)
         + totalSize(teams, k + 1)

\* the second forEach of generateTeamFile: a team with raw data is copied at offset,
\* which then advances by its length; a team without is passed over
RECURSIVE copyRawBuffers(_, _, _, _)
copyRawBuffers(output, teams, k, offset) ==
    IF k > Len(teams) THEN output
    ELSE IF teams[k].rawBuffer # Null
         THEN copyRawBuffers(PutCopy(output, offset, teams[k].rawBuffer, 0,
                                     teams[k].rawBuffer.len),
                             teams, k + 1, offset + teams[k].rawBuffer.len)
         ELSE copyRawBuffers(output, teams, k + 1, offset)

\* generateTeamFile(teams)
generateTeamFile(teams) ==
    IF Len(teams) = 0 THEN NewBuf(0)
    ELSE copyRawBuffers(NewBuf(totalSize(teams, 1)), teams, 1, 0)

\* ------------------------------------------------------------------ inputs
\* The files the operations are run on.  A file is written as its length, its fill
\* byte and the fields that differ from the fill.
PadTo(bytes, n, pad) == bytes \o [i \in 1..(n - Len(bytes)) |-> pad]


\* one slot: palette entries 0 and 1, name and owner fields, 3 block references
SlotLayers(i, t) ==
    LET at == SLOT_START_OFFSET + i * SLOT_SIZE
    IN  << DataLayer(at + 20, <<1, 2, 3, 255>> \o t.color),
           DataLayer(at + 84, PadTo(t.name, 24, t.pad) \o PadTo(t.owner, 24, 0)),
           DataLayer(at + 184, LE32(t.refs[1]) \o OKE_MAGIC \o OKE_FLAG),
           DataLayer(at + 232, LE32(t.refs[2]) \o OKE_MAGIC \o OKE_FLAG),
           DataLayer(at + 280, LE32(t.refs[3]) \o OKE_MAGIC \o OKE_FLAG) >>

RECURSIVE AllSlotLayers(_, _)
AllSlotLayers(slots, i) ==
    IF i >= Len(slots) THEN <<>>
    ELSE SlotLayers(i, slots[i + 1]) \o AllSlotLayers(slots, i + 1)

\* block k of file id: the first two bytes of its payload identify it
BlockLayers(id, blocks) ==
    [k \in 1..Len(blocks) |->
        DataLayer(OKE_BLOCK_START + blocks[k] * OKE_BLOCK_SIZE, <<id, blocks[k] + 1>>)]

MatchFile(id, len, fill, declared, slots, blocks) ==
    [len |-> len, fill |-> fill,
     layers |-> << DataLayer(0, TYPE_MATCH \o <<64, 0, 0, 0>>),
                   DataLayer(16, PadTo(<<70, 48 + id>>, 32, 0)),
                   DataLayer(52, LE32(declared) \o LE32((declared * (declared - 1)) \div 2)) >>
                \o AllSlotLayers(slots, 0) \o BlockLayers(id, blocks)]

TeamFile(len, name, pad, owner, color) ==
    [len |-> len, fill |-> 0,
     layers |-> << DataLayer(0, TYPE_TEAM \o <<1, 0, 0, 0>>),
                   DataLayer(576, <<9, 8, 7, 255>> \o color),
                   DataLayer(640, PadTo(name, 24, pad) \o PadTo(owner, 24, 0)) >>]

SlotSpec(name, pad, owner, color, refs) ==
    [name |-> name, pad |-> pad, owner |-> owner, color |-> color, refs |-> refs]

\* a tournament file of 2 teams that share block 1
FileA ==
    MatchFile(1, TOTAL_FILE_SIZE, 0, 2,
        << SlotSpec(<<65, 66>>, 0, <<88>>, <<10, 20, 30, 255>>, <<0, 1, UNSET>>),
           SlotSpec(<<67, 68>>, 0, <<89>>, <<40, 50, 60, 255>>, <<1, 2, UNSET>>) >>,
        <<0, 1, 2>>)

\* a tournament file whose block 0 differs from FileA's, with an empty second slot
FileB ==
    MatchFile(2, TOTAL_FILE_SIZE, 205, 2,
        << SlotSpec(<<69, 70>>, 0, <<90>>, <<70, 80, 90, 255>>, <<0, 5, 31>>),
           SlotSpec(<<>>, 255, <<>>, <<1, 1, 1, 255>>, <<UNSET, UNSET, UNSET>>) >>,
        <<0, 5>>)

\* a tournament file of 12 teams that reference all 31 blocks
BigRefs(i) ==
    IF i = 0 THEN <<UNSET, 0, 1>>
    ELSE IF i <= 9 THEN <<3 * i - 1, 3 * i, 3 * i + 1>>
    ELSE IF i = 10 THEN <<29, 30, FILL_CD>>
    ELSE <<30, 30, 29>>
FileBig ==
    MatchFile(3, TOTAL_FILE_SIZE, 0, 12,
        [k \in 1..12 |-> SlotSpec(<<71, 64 + k>>, 0, <<79, 64 + k>>,
                                  <<k, 2 * k, 3 * k, 255>>, BigRefs(k - 1))],
        [k \in 1..31 |-> k - 1])

TeamFile1 == TeamFile(24512, <<84, 49>>, 0, <<90>>, <<5, 6, 7, 255>>)
\* a team file whose name field is padding only
TeamFile2 == TeamFile(24512, <<>>, 255, <<90>>, <<5, 6, 7, 255>>)
\* buffers that are neither format: a wrong tag, 3 bytes, no byte at all
BadTag == [len |-> 64, fill |-> 0, layers |-> <<DataLayer(0, <<67, 69, 88, 68>>)>>]
ShortBuf == [len |-> 3, fill |-> 0, layers |-> <<DataLayer(0, <<67, 69, 77>>)>>]

\* the files the codec operations are run on, in the order they are opened
SourceFiles == <<FileA, FileB, FileBig, TeamFile1>>
\* a tournament file cut after its third slot that declares 4 teams, with results
CutFile ==
    Slice(MatchFile(5, TOTAL_FILE_SIZE, 0, 4,
                    [k \in 1..4 |-> SlotSpec(<<72, 64 + k>>, 0, <<80, 64 + k>>,
                                             <<k, k, k, 255>>, <<UNSET, UNSET, UNSET>>)],
                    <<>>),
          0, SLOT_START_OFFSET + 3 * SLOT_SIZE)
\* a tournament file that declares one team more than the format has slots
File17 ==
    PutBytes(MatchFile(6, TOTAL_FILE_SIZE, 0, MAX_SLOTS + 1,
                       [k \in 1..MAX_SLOTS |-> SlotSpec(<<73, 64 + k>>, 0, <<81, 64 + k>>,
                                                        <<k, k, k, 255>>, <<UNSET, UNSET, UNSET>>)],
                       <<>>),
             matchStartOffset, [k \in 1..30 |-> 27])
\* the files dropped on the application
InputFiles ==
    <<FileA, FileB, FileBig, TeamFile1, TeamFile2, BadTag, ShortBuf, EmptyBuf, CutFile, File17>>

\* template.CHE as fetched: a full-size tournament file
TemplateA ==
    [len |-> TOTAL_FILE_SIZE, fill |-> 205,
     layers |-> << DataLayer(0, TYPE_MATCH \o <<64, 0, 0, 0>>),
                   DataLayer(52, LE32(16) \o LE32(120)) >>]
\* a template with two filled slots (the second with an unset entry, an entry of 31
\* and an entry pointing at block 5, which is zero throughout) and 14 zero slots
TemplateB ==
    MatchFile(9, TOTAL_FILE_SIZE, 0, 16,
        << SlotSpec(<<83, 49>>, 0, <<83>>, <<200, 100, 50, 255>>, <<0, 1, 2>>),
           SlotSpec(<<83, 50>>, 0, <<83>>, <<100, 50, 200, 255>>, <<UNSET, 31, 5>>) >>,
        <<0, 1, 2>>)
Templates == {TemplateA, TemplateB}

\* "Cup" and the default name
TournamentNames == { <<67, 117, 112>>, <<26032, 35215, 22823, 20250>> }

\* ------------------------------------------------------------------ state
VARIABLES
    templateData,        \* CHEParser.templateData: Null or the template bytes
    nextOkeBlockIndex,   \* CHEParser._nextOkeBlockIndex: Undef before the first call
    parsedTeams,         \* the teams the parse calls returned so far, in order
    parsedFiles,         \* which of SourceFiles were parsed so far
    lastParse,           \* what the last parse call returned (or that it threw)
    gen,                 \* the last generateMatchFile call: arguments and result
    prev,                \* the call before gen, kept when it had the same arguments
    readBack,            \* the result of parsing the buffer gen returned
    loadedFiles,         \* App.loadedFiles: <<filename, type>> of every file read
    sourceTeams,         \* TeamEditor.sourceTeams
    rawBuffers,          \* TeamEditor.rawBuffers: <<filename, buffer>> of every file read
    tournamentNameInput, \* the value of the tournament-name input field
    viewerTeams,         \* TableViewer.teams
    resultsAsc,          \* TableViewer.resultsAsc
    resultsDesc,         \* TableViewer.resultsDesc
    toast,               \* the notification App.showToast showed last
    clicks,              \* how many cell clicks TableViewer.handleCellClick handled
    outputTeams,         \* TeamEditor.outputTeams
    selectedSource,      \* TeamEditor.selectedSource: indices into sourceTeams
    selectedOutput,      \* TeamEditor.selectedOutput: indices into outputTeams
    standings,           \* ResultCalc.standings
    isManualOrder,       \* ResultCalc.isManualOrder
    edits,               \* how many TeamEditor handlers and resets ran
    teamFile,            \* the last generateTeamFile call: argument and result
    codec,               \* the string or name field the text codec is applied to
    matrix               \* the packed results extractMatchResults is applied to

codecVars == <<templateData, nextOkeBlockIndex, parsedTeams, parsedFiles, lastParse, gen, prev,
               readBack>>
editVars == <<outputTeams, selectedSource, selectedOutput, standings, isManualOrder, edits>>
appVars == <<loadedFiles, sourceTeams, rawBuffers, tournamentNameInput, viewerTeams,
             resultsAsc, resultsDesc, toast, clicks, editVars>>
unitVars == <<teamFile, codec, matrix>>
vars == <<codecVars, appVars, unitVars>>

\* bounds of the exploration
MaxTeams == 17
MaxPick == 2
MaxFiles == 2
MaxList == 3
MaxManual == 3
MaxClicks == 3
MaxStr == 2
MaxDeclared == 20
MaxBytes == 3

\* what a caller sees of a parsed team and of a parse result
TeamSummary(t) == [name |-> t.name, owner |-> t.owner, primaryColor |-> t.primaryColor]
ParseSummary(p) ==
    [type |-> p.type, teamCount |-> p.header.teamCount, matchCount |-> p.header.matchCount,
     teams |-> [k \in 1..Len(p.teams) |-> TeamSummary(p.teams[k])]]
NoParse == [type |-> "none", teamCount |-> 0, matchCount |-> 0, teams |-> <<>>]

NoGen ==
    [called |-> FALSE, teams |-> <<>>, name |-> <<>>, tmpl |-> Null, before |-> Undef,
     err |-> FALSE, output |-> EmptyBuf, next |-> Undef, indexMap |-> EmptyMap,
     placed |-> <<>>, dropped |-> <<>>]

\* the record of one call: its arguments, the template and the counter it found,
\* and what it returned and left
GenCall(teams, name, tmpl, counter) ==
    [called |-> TRUE, teams |-> teams, name |-> name, tmpl |-> tmpl, before |-> counter]
    @@ generateMatchFile(teams, name, tmpl, counter)

\* what prev keeps of a call
NoPrev == [called |-> FALSE, tmpl |-> Null, err |-> FALSE, output |-> EmptyBuf]
Kept(g) == [called |-> g.called, tmpl |-> g.tmpl, err |-> g.err, output |-> g.output]

\* the team lists generateMatchFile is called with
\* (a) the first n teams of the pool, the pool repeated cyclically when it is shorter
Cycle(pool, n) == [k \in 1..n |-> pool[((k - 1) % Len(pool)) + 1]]
LongLists(pool) ==
    IF Len(pool) = 0 THEN {<<>>} ELSE {Cycle(pool, n) : n \in 0..MaxTeams}
\* (b) every list of at most MaxPick teams of the pool
ShortLists(pool) == UNION {[1..n -> {pool[k] : k \in 1..Len(pool)}] : n \in 0..MaxPick}

DefaultName == <<26032, 35215, 22823, 20250>>

NoToast == [type |-> "none", file |-> 0, kind |-> "none"]

NoTeamFile == [called |-> FALSE, teams |-> <<>>, output |-> EmptyBuf]
NoCodec == [op |-> "none"]
NoMatrix == [op |-> "none"]

\* the state after construction, before anything is loaded
InitProgram ==
    /\ templateData = Null
    /\ nextOkeBlockIndex = Undef
    /\ parsedTeams = <<>>
    /\ parsedFiles = {}
    /\ lastParse = NoParse
    /\ gen = NoGen
    /\ prev = NoPrev
    /\ readBack = NoParse
    /\ loadedFiles = <<>>
    /\ sourceTeams = <<>>
    /\ rawBuffers = <<>>
    /\ tournamentNameInput = <<>>
    /\ viewerTeams = <<>>
    /\ resultsAsc = <<>>
    /\ resultsDesc = <<>>
    /\ toast = NoToast
    /\ clicks = 0
    /\ outputTeams = <<>>
    /\ selectedSource = <<>>
    /\ selectedOutput = <<>>
    /\ standings = <<>>
    /\ isManualOrder = FALSE
    /\ edits = 0
    /\ teamFile = NoTeamFile

Init == InitProgram /\ codec = NoCodec /\ matrix = NoMatrix

\* loadTemplate: the fetch succeeds with template t, or fails and clears templateData
LoadTemplate(ok, t) ==
    /\ templateData' = IF ok THEN t ELSE Null
    /\ UNCHANGED <<nextOkeBlockIndex, parsedTeams, parsedFiles, lastParse, gen, prev,
                   readBack, appVars, unitVars>>

\* CHEParser.parse(buffer) on the i-th source file
Parse(i) ==
    /\ \E p \in {parse(SourceFiles[i])} :
          /\ lastParse' = ParseSummary(p)
          /\ parsedTeams' = parsedTeams \o p.teams
    /\ parsedFiles' = parsedFiles \cup {i}
    /\ UNCHANGED <<templateData, nextOkeBlockIndex, gen, prev, readBack, appVars, unitVars>>

\* CHEParser.generateMatchFile(teams, tournamentName)
Generate(teams, name) ==
    /\ gen' = GenCall(teams, name, templateData, nextOkeBlockIndex)
    /\ nextOkeBlockIndex' = gen'.next
    /\ prev' = IF gen.called /\ gen.teams = teams /\ gen.name = name THEN Kept(gen) ELSE NoPrev
    /\ readBack' = NoParse
    /\ UNCHANGED <<templateData, parsedTeams, parsedFiles, lastParse, appVars, unitVars>>

\* CHEParser.parse on the buffer the last generateMatchFile call returned
ReadBack ==
    /\ gen.called /\ ~gen.err
    /\ readBack = NoParse
    /\ \E p \in {parse(gen.output)} : readBack' = ParseSummary(p)
    /\ UNCHANGED <<templateData, nextOkeBlockIndex, parsedTeams, parsedFiles, lastParse, gen,
                   prev, appVars, unitVars>>

\* Spec: source files are parsed (each at most once, in their order), the template is
\* loaded, one list of up to MaxTeams teams is generated and the result is parsed back
Next ==
    \/ \E ok \in BOOLEAN, t \in Templates :
          ~gen.called /\ LoadTemplate(ok, t)
    \/ \E i \in 1..Len(SourceFiles) :
          ~gen.called /\ (\A j \in parsedFiles : j < i) /\ Parse(i)
    \/ \E teams \in LongLists(parsedTeams) :
          ~gen.called /\ Generate(teams, DefaultName)
    \/ ReadBack

Spec == Init /\ [][Next]_vars

\* SpecCalls: generateMatchFile is called again and again with short lists of the
\* teams of FileA, with template loads and failures in between
NextCalls ==
    \/ \E ok \in BOOLEAN, t \in Templates : LoadTemplate(ok, t)
    \/ parsedFiles = {} /\ Parse(1)
    \/ \E teams \in ShortLists(parsedTeams), name \in TournamentNames :
          Generate(teams, name)

SpecCalls == Init /\ [][NextCalls]_vars

\* str.replace(/\0/g, ''): every NUL removed
RemoveNul(s) == SelectSeq(s, LAMBDA c : c # 0)

\* TeamEditor.addTeamsFromFile: the teams of data with sourceFile and globalIndex set;
\* a team of a team file holds the whole file as its rawBuffer
addTeamsFromFile(teams, data, filename) ==
    teams \o [k \in 1..Len(data.teams) |->
                [sourceFile |-> filename, globalIndex |-> Len(teams) + k - 1]
                @@ (IF data.type = "team"
                    THEN [data.teams[k] EXCEPT !.rawBuffer = data.raw]
                    ELSE data.teams[k])]

\* the tournament-name field after addTeamsFromFile: set when the header has a name
\* that is not empty once NULs and surrounding white space are removed
nameFieldAfter(field, data) ==
    LET tName == Trim(RemoveNul(data.header.tournamentName))
    IN  IF Len(data.header.tournamentName) > 0 /\ Len(tName) > 0 THEN tName ELSE field

\* the onload handler of App.readFile for file f of InputFiles: parse, and when parse
\* does not throw, addLoadedFile, TeamEditor.addTeamsFromFile and, for a tournament
\* file, TableViewer.setMatchData; when it throws, only the error toast
ReadFile(f) ==
    \E data \in {parse(InputFiles[f])} :
    IF data.type = "error"
    THEN /\ toast' = [type |-> "error", file |-> f, kind |-> "none"]
         /\ UNCHANGED <<codecVars, loadedFiles, sourceTeams, rawBuffers, tournamentNameInput,
                        viewerTeams, resultsAsc, resultsDesc, clicks, editVars, unitVars>>
    ELSE /\ loadedFiles' = Append(loadedFiles, <<f, data.type>>)
         /\ tournamentNameInput' = nameFieldAfter(tournamentNameInput, data)
         /\ rawBuffers' = Append(rawBuffers, <<f, data.raw>>)
         /\ sourceTeams' = addTeamsFromFile(sourceTeams, data, f)
         /\ IF data.type = "match"
            THEN /\ viewerTeams' = SubSeq(sourceTeams', Len(sourceTeams) + 1, Len(sourceTeams'))
                 /\ resultsAsc' = data.results
                 /\ resultsDesc' = data.results
            ELSE UNCHANGED <<viewerTeams, resultsAsc, resultsDesc>>
         /\ toast' = [type |-> "success", file |-> f, kind |-> data.type]
         /\ UNCHANGED <<codecVars, clicks, editVars, unitVars>>

\* SpecApp: files are dropped on the application while the template load completes
NextApp ==
    \/ \E ok \in BOOLEAN, t \in Templates : LoadTemplate(ok, t)
    \/ \E f \in 1..Len(InputFiles) : Len(loadedFiles) < MaxFiles /\ ReadFile(f)

SpecApp == Init /\ [][NextApp]_vars

\* an n x n result matrix without results (rows of new Array(n).fill(0))
NoResults(n) == [i \in 0..(n - 1) |-> [j \in 0..(n - 1) |-> 0]]

\* the status stored for the opponent (not the program's: the status itself)
SameStatus(status) == status

\* updateResult: the status stored for the opponent: win <-> loss, draw and none as is
OpponentStatus(status) == IF status = 1 THEN 2 ELSE IF status = 2 THEN 1 ELSE status

\* updateResult: results[row][col] = status, then results[col][row] = its mirror
updateResult(results, row, col, status) ==
    LET own == [results EXCEPT ![row][col] = status]
    IN  [own EXCEPT ![col][row] = OpponentStatus(status)]

\* handleCellClick on one of the two matrices: nothing on the diagonal, otherwise the
\* cell advances none -> win -> loss -> draw -> none
handleCellClick(results, row, col) ==
    IF row = col THEN results
    ELSE updateResult(results, row, col, (results[row][col] + 1) % 4)

\* TableViewer.handleCellClick(row, col, isReverse), for a cell of the rendered table
CellClick(row, col, isReverse) ==
    /\ clicks < MaxClicks
    /\ clicks' = clicks + 1
    /\ IF isReverse
       THEN /\ resultsDesc' = handleCellClick(resultsDesc, row, col)
            /\ UNCHANGED resultsAsc
       ELSE /\ resultsAsc' = handleCellClick(resultsAsc, row, col)
            /\ UNCHANGED resultsDesc
    /\ UNCHANGED <<codecVars, loadedFiles, sourceTeams, rawBuffers, tournamentNameInput,
                   viewerTeams, toast, editVars, unitVars>>

\* TableViewer.setTeamsForManualInput(teams), called when the output list is rendered
SetTeamsForManualInput(teams) ==
    /\ viewerTeams' = teams
    /\ resultsAsc' = NoResults(Len(teams))
    /\ resultsDesc' = NoResults(Len(teams))
    /\ UNCHANGED <<codecVars, loadedFiles, sourceTeams, rawBuffers, tournamentNameInput,
                   toast, clicks, editVars, unitVars>>

\* the tournament files dropped while the tables are edited: FileA and FileB
ViewerFiles == {1, 2}

\* SpecViewer: tournament files are loaded (each once), the output list is set to the
\* first teams of the source list, and cells of both tables are clicked
NextViewer ==
    \/ \E f \in ViewerFiles :
          (\A k \in 1..Len(loadedFiles) : loadedFiles[k][1] # f) /\ ReadFile(f)
    \/ \E n \in 0..MaxManual :
          n <= Len(sourceTeams) /\ SetTeamsForManualInput(Take(sourceTeams, n))
    \/ \E row, col \in 0..(Len(viewerTeams) - 1), isReverse \in BOOLEAN :
          CellClick(row, col, isReverse)

SpecViewer == Init /\ [][NextViewer]_vars

\* a Uint8Array holding the given bytes
BufOf(bytes) ==
    [len |-> Len(bytes), fill |-> 0,
     layers |-> IF Len(bytes) = 0 THEN <<>> ELSE <<DataLayer(0, bytes)>>]

\* the strings the codec is applied to: every single code unit but U+0000, and every
\* string of at most MaxStr of the sample code units ('A', space, DEL, the first and
\* last half-width kana, U+3042, U+65B0 of the ideograph table, U+00E9, U+FFFD)
SampleUnits == {65, 32, 127, 65377, 65439, 12354, 26032, 233, 65533}
Strings ==
    {<<c>> : c \in 1..65535} \cup UNION {[1..n -> SampleUnits] : n \in 0..MaxStr}

\* the names stored in a name field ("Red Team", "AB", half-width kana, no name, a
\* name of 24 bytes) and the bytes that pad the field
FieldNames ==
    { <<82, 101, 100, 32, 84, 101, 97, 109>>, <<65, 66>>, <<177, 178>>, <<>>,
      [k \in 1..24 |-> 64 + k] }
FieldPads == {255, 0, 32}

\* a team file with the given name field
NameFile(name, pad) == TeamFile(24512, name, pad, <<90>>, <<5, 6, 7, 255>>)

\* the byte sequences decoded: at most MaxBytes of 0x00, 'A', '@', a half-width kana,
\* 0xFF and the lead bytes 0x81, 0x82, 0xE0
SampleBytes == {0, 65, 64, 177, 255, 129, 130, 224}
ByteStrings == UNION {[1..n -> SampleBytes] : n \in 0..MaxBytes}

CodecInputs ==
    {[op |-> "string", str |-> str] : str \in Strings}
    \cup {[op |-> "field", name |-> name, pad |-> pad] : name \in FieldNames, pad \in FieldPads}
    \cup {[op |-> "bytes", bytes |-> bytes] : bytes \in ByteStrings}

\* SpecStrings starts from the program's initial state with one codec input
InitStrings == InitProgram /\ codec \in CodecInputs /\ matrix = NoMatrix

\* Encoding.toSJIS(str), and Encoding.toUTF8 of the result in the given environment
EncodeDecode(backend) ==
    /\ codec.op = "string"
    /\ codec' = [op |-> "coded", backend |-> backend, str |-> codec.str,
                 bytes |-> toSJIS(codec.str),
                 text |-> toUTF8In(backend, BufOf(toSJIS(codec.str)))]
    /\ UNCHANGED <<codecVars, appVars, teamFile, matrix>>

\* readSJISString on the 24-byte name field of a team file, then toSJIS and toUTF8
\* of the string it returned
ReadNameField(backend) ==
    /\ codec.op = "field"
    /\ \E text \in {readSJISStringIn(backend, NameFile(codec.name, codec.pad), 640, 24)} :
          codec' = [op |-> "read", backend |-> backend, name |-> codec.name,
                    pad |-> codec.pad, text |-> text,
                    again |-> toUTF8In(backend, BufOf(toSJIS(text)))]
    /\ UNCHANGED <<codecVars, appVars, teamFile, matrix>>

\* the elements of a byte sequence before its first 0x00
RECURSIVE BeforeNul(_)
BeforeNul(bytes) ==
    IF bytes = <<>> \/ Head(bytes) = 0 THEN <<>>
    ELSE <<Head(bytes)>> \o BeforeNul(Tail(bytes))

\* Encoding.toUTF8 of a byte sequence in the given environment, and of the bytes
\* before its first 0x00
DecodeBytes(backend) ==
    /\ codec.op = "bytes"
    /\ codec' = [op |-> "decoded", backend |-> backend, bytes |-> codec.bytes,
                 text |-> toUTF8In(backend, BufOf(codec.bytes)),
                 head |-> toUTF8In(backend, BufOf(BeforeNul(codec.bytes)))]
    /\ UNCHANGED <<codecVars, appVars, teamFile, matrix>>

NextStrings ==
    \/ \E backend \in Backends : EncodeDecode(backend)
    \/ \E backend \in Backends : ReadNameField(backend)
    \/ \E backend \in Backends : DecodeBytes(backend)

SpecStrings == InitStrings /\ [][NextStrings]_vars

\* the packed results stored in a tournament file, 30 bytes from 0x3548 on (2 bits for
\* each of the 120 pairs of 16 teams): the same byte throughout (0xCD gives 1, 3, 0, 3;
\* 0x1B gives 3, 2, 1, 0; 0x00; 0xFF), or bytes that differ from one to the next
PackedPatterns ==
    { [k \in 1..30 |-> 205], [k \in 1..30 |-> 27], [k \in 1..30 |-> 0], [k \in 1..30 |-> 255],
      [k \in 1..30 |-> (37 * k + 11) % 256], [k \in 1..30 |-> (7 * k + 1) % 256] }

\* a full-size tournament file declaring teamCount teams, with the packed results
ResultsFile(teamCount, packed) ==
    [len |-> TOTAL_FILE_SIZE, fill |-> 0,
     layers |-> << DataLayer(0, TYPE_MATCH \o <<64, 0, 0, 0>>),
                   DataLayer(52, LE32(teamCount) \o LE32((teamCount * (teamCount - 1)) \div 2)),
                   DataLayer(matchStartOffset, packed) >>]

\* SpecMatrix starts from the program's initial state with one file of packed results,
\* for every team count up to the 16 slots of the format
InitMatrix ==
    /\ InitProgram /\ codec = NoCodec
    /\ matrix \in {[op |-> "file", teamCount |-> n, packed |-> packed] :
                      n \in 0..MAX_SLOTS, packed \in PackedPatterns}

\* CHEParser.parse on the file: parseMatchFile reads the count and calls
\* extractMatchResults(bytes, header.teamCount)
ExtractResults ==
    /\ matrix.op = "file"
    /\ \E data \in {parse(ResultsFile(matrix.teamCount, matrix.packed))} :
          matrix' = [op |-> "decoded", teamCount |-> data.header.teamCount,
                     packed |-> matrix.packed, results |-> data.results]
    /\ UNCHANGED <<codecVars, appVars, teamFile, codec>>

NextMatrix == ExtractResults

SpecMatrix == InitMatrix /\ [][NextMatrix]_vars

\* a tournament buffer of len bytes: the first len bytes of a file that declares
\* `declared` teams, holds MAX_SLOTS named slots and the packed results
SlotNames == [k \in 1..MAX_SLOTS |-> <<71, 64 + k>>]
ParseInput(len, declared, packed) ==
    LET file == MatchFile(4, TOTAL_FILE_SIZE, 0, declared,
                          [k \in 1..MAX_SLOTS |->
                              SlotSpec(SlotNames[k], 0, <<79, 64 + k>>, <<k, k, k, 255>>,
                                       <<UNSET, UNSET, UNSET>>)],
                          <<>>)
    IN  Slice(PutBytes(file, matchStartOffset, packed), 0, len)

\* the lengths of the buffers parsed: the header alone, up to the end of a slot and
\* one byte less, around the offset of the packed results, the full file
BufferLengths ==
    { 40, 64, SLOT_START_OFFSET, SLOT_START_OFFSET + SLOT_SIZE - 1,
      SLOT_START_OFFSET + SLOT_SIZE, SLOT_START_OFFSET + 3 * SLOT_SIZE - 1,
      SLOT_START_OFFSET + 3 * SLOT_SIZE, matchStartOffset - 1, matchStartOffset,
      matchStartOffset + 1, matchStartOffset + 7, matchStartOffset + 30,
      SLOT_START_OFFSET + MAX_SLOTS * SLOT_SIZE, TOTAL_FILE_SIZE }
\* the team counts declared at 0x34: 0xFFFFFFFF, none, a few, the 15 teams of the
\* matrix layout, the 16 slots of the format, and more than the format holds
DeclaredCounts == {UNSET, 0, 1, 2, 3, 4, MATRIX_TEAMS, MAX_SLOTS, MAX_SLOTS + 1, MaxDeclared}

\* SpecParse starts from the program's initial state with one tournament buffer
InitParse ==
    /\ InitProgram /\ codec = NoCodec
    /\ matrix \in {[op |-> "buffer", len |-> len, declared |-> n, packed |-> packed] :
                      len \in BufferLengths, n \in DeclaredCounts, packed \in PackedPatterns}

\* CHEParser.parse on the buffer: what it returns, or that it threw
ParseBuffer ==
    /\ matrix.op = "buffer"
    /\ \E data \in {parse(ParseInput(matrix.len, matrix.declared, matrix.packed))} :
          matrix' = [op |-> "parsed", len |-> matrix.len, declared |-> matrix.declared,
                     packed |-> matrix.packed, type |-> data.type,
                     teamCount |-> data.header.teamCount,
                     names |-> [k \in 1..Len(data.teams) |-> data.teams[k].name],
                     results |-> data.results]
    /\ UNCHANGED <<codecVars, appVars, teamFile, codec>>

NextParse == ParseBuffer

SpecParse == InitParse /\ [][NextParse]_vars

\* the team files converted: every name of FieldNames, padded with every pad byte,
\* with no owner, a short owner and an owner of 24 bytes
FieldOwners == { <<>>, <<90>>, [k \in 1..24 |-> 96 + k] }
ConvertedFile(name, pad, owner) == TeamFile(24512, name, pad, owner, <<5, 6, 7, 255>>)

\* the list saved: the team of TeamFile1 pos times, then the team of the file
ConvertedList(file, pos) ==
    [k \in 1..pos |-> parse(TeamFile1).teams[1]] \o parse(file).teams

\* SpecConvert: the template is loaded, one list that ends with the team of a team
\* file is generated with that team at slot pos, and the result is parsed back
NextConvert ==
    \/ \E t \in Templates :
          ~gen.called /\ templateData = Null /\ LoadTemplate(TRUE, t)
    \/ \E name \in FieldNames, pad \in FieldPads, owner \in FieldOwners,
          pos \in 0..(MAX_SLOTS - 1) :
          /\ ~gen.called /\ templateData # Null
          /\ Generate(ConvertedList(ConvertedFile(name, pad, owner), pos), DefaultName)
    \/ ReadBack

SpecConvert == Init /\ [][NextConvert]_vars

\* a team object that carries no raw data
WithoutRaw(t) == [t EXCEPT !.rawBuffer = Null]
\* the teams generateTeamFile is called with: the parsed ones, and one without raw data
TeamFilePool ==
    parsedTeams \o (IF parsedTeams = <<>> THEN <<>> ELSE <<WithoutRaw(parsedTeams[1])>>)
\* every list of at most MaxList teams of the pool
TeamLists(pool) == UNION {[1..n -> {pool[k] : k \in 1..Len(pool)}] : n \in 0..MaxList}
\* the source files parsed for it: FileA and TeamFile1
TeamFileSources == {1, 4}

\* CHEParser.generateTeamFile(teams)
GenerateTeamFile(teams) ==
    /\ teamFile' = [called |-> TRUE, teams |-> teams, output |-> generateTeamFile(teams)]
    /\ UNCHANGED <<codecVars, appVars, codec, matrix>>

\* SpecTeamFile: a tournament file and a team file are parsed and generateTeamFile is
\* called with lists of their teams
NextTeamFile ==
    \/ \E i \in TeamFileSources : i \notin parsedFiles /\ ~teamFile.called /\ Parse(i)
    \/ \E teams \in TeamLists(TeamFilePool) : GenerateTeamFile(teams)

SpecTeamFile == Init /\ [][NextTeamFile]_vars

\* ------------------------------------------------------------------ team editor
MAX_OUTPUT == 16
\* the bound on the TeamEditor handlers and resets of one run
MaxEdits == 4

\* toggleSourceSelection / toggleOutputSelection: with the modifier key the index is
\* pushed or, when already selected, spliced out; without, it is the whole selection
toggleSelection(selected, index, multi) ==
    IF multi
    THEN IF \E k \in 1..Len(selected) : selected[k] = index
         THEN SelectSeq(selected, LAMBDA x : x # index)
         ELSE Append(selected, index)
    ELSE <<index>>

\* Array.prototype.sort((a, b) => a - b)
RECURSIVE insertAsc(_, _)
insertAsc(sorted, x) ==
    IF sorted = <<>> THEN <<x>>
    ELSE IF x < Head(sorted) THEN <<x>> \o sorted
         ELSE <<Head(sorted)>> \o insertAsc(Tail(sorted), x)
RECURSIVE sortAsc(_)
sortAsc(s) == IF s = <<>> THEN <<>> ELSE insertAsc(sortAsc(Tail(s)), Head(s))
\* Array.prototype.reverse, and sort((a, b) => b - a)
reverse(s) == [k \in 1..Len(s) |-> s[Len(s) + 1 - k]]
sortDesc(s) == reverse(sortAsc(s))

\* the forEach of an addTeams that has no limit on the output list (not the program's)
RECURSIVE addSelectedNoLimit(_, _, _, _)
addSelectedNoLimit(output, source, selected, k) ==
    IF k > Len(selected) THEN [teams |-> output, full |-> FALSE]
    ELSE LET team == source[selected[k] + 1] IN
         IF \E j \in 1..Len(output) : output[j].globalIndex = team.globalIndex
         THEN addSelectedNoLimit(output, source, selected, k + 1)
         ELSE addSelectedNoLimit(Append(output, team), source, selected, k + 1)

\* the forEach of addTeams: a selected team is passed over with the error toast when
\* the output list holds 16 teams, and without one when its globalIndex is in the list
RECURSIVE addSelected(_, _, _, _)
addSelected(output, source, selected, k) ==
    IF k > Len(selected) THEN [teams |-> output, full |-> FALSE]
    ELSE IF Len(output) >= MAX_OUTPUT
         THEN [addSelected(output, source, selected, k + 1) EXCEPT !.full = TRUE]
         ELSE LET team == source[selected[k] + 1] IN
              IF \E j \in 1..Len(output) : output[j].globalIndex = team.globalIndex
              THEN addSelected(output, source, selected, k + 1)
              ELSE addSelected(Append(output, team), source, selected, k + 1)

\* outputTeams.splice(index, 1)
splice1(s, index) ==
    IF index < 0 \/ index >= Len(s) THEN s
    ELSE SubSeq(s, 1, index) \o SubSeq(s, index + 2, Len(s))
\* the forEach of removeTeams over the selection sorted descending
RECURSIVE spliceEach(_, _, _)
spliceEach(output, selected, k) ==
    IF k > Len(selected) THEN output
    ELSE spliceEach(splice1(output, selected[k]), selected, k + 1)

\* the two elements at indices i and j exchanged
swap(s, i, j) == [s EXCEPT ![i + 1] = s[j + 1], ![j + 1] = s[i + 1]]

\* the list items in the order of the DOM after the item at index from was dragged
\* to position to
dragged(s, from, to) ==
    LET rest == splice1(s, from)
    IN  SubSeq(rest, 1, to) \o <<s[from + 1]>> \o SubSeq(rest, to + 1, Len(rest))

\* renderOutputList: TableViewer.setTeamsForManualInput(outputTeams) takes the list
\* and replaces both matrices by empty ones of its size
renderOutputList(teams) ==
    /\ viewerTeams' = teams
    /\ resultsAsc' = NoResults(Len(teams))
    /\ resultsDesc' = NoResults(Len(teams))

\* a click on item index of the source list
ToggleSourceSelection(index, multi) ==
    /\ edits < MaxEdits
    /\ edits' = edits + 1
    /\ selectedSource' = toggleSelection(selectedSource, index, multi)
    /\ UNCHANGED <<codecVars, loadedFiles, sourceTeams, rawBuffers, tournamentNameInput,
                   viewerTeams, resultsAsc, resultsDesc, toast, clicks, outputTeams,
                   selectedOutput, standings, isManualOrder, unitVars>>

\* a click on item index of the output list
ToggleOutputSelection(index, multi) ==
    /\ edits < MaxEdits
    /\ edits' = edits + 1
    /\ selectedOutput' = toggleSelection(selectedOutput, index, multi)
    /\ renderOutputList(outputTeams)
    /\ UNCHANGED <<codecVars, loadedFiles, sourceTeams, rawBuffers, tournamentNameInput,
                   toast, clicks, outputTeams, selectedSource, standings, isManualOrder,
                   unitVars>>

\* addTeams
AddTeams ==
    /\ edits < MaxEdits
    /\ edits' = edits + 1
    /\ \E added \in {addSelected(outputTeams, sourceTeams, sortAsc(selectedSource), 1)} :
          /\ outputTeams' = added.teams
          /\ toast' = IF added.full
                      THEN [type |-> "error", file |-> 0, kind |-> "max16"]
                      ELSE toast
    /\ selectedSource' = <<>>
    /\ renderOutputList(outputTeams')
    /\ UNCHANGED <<codecVars, loadedFiles, sourceTeams, rawBuffers, tournamentNameInput,
                   clicks, selectedOutput, standings, isManualOrder, unitVars>>

\* removeTeams
RemoveTeams ==
    /\ edits < MaxEdits
    /\ edits' = edits + 1
    /\ outputTeams' = spliceEach(outputTeams, sortDesc(selectedOutput), 1)
    /\ selectedOutput' = <<>>
    /\ renderOutputList(outputTeams')
    /\ UNCHANGED <<codecVars, loadedFiles, sourceTeams, rawBuffers, tournamentNameInput,
                   toast, clicks, selectedSource, standings, isManualOrder, unitVars>>

\* moveUp (by = -1) and moveDown (by = 1); the handler returns at once unless exactly
\* one team is selected and it is not at that end of the list
Move(by) ==
    /\ edits < MaxEdits
    /\ Len(selectedOutput) = 1
    /\ selectedOutput[1] # (IF by < 0 THEN 0 ELSE Len(outputTeams) - 1)
    /\ edits' = edits + 1
    /\ outputTeams' = swap(outputTeams, selectedOutput[1], selectedOutput[1] + by)
    /\ selectedOutput' = <<selectedOutput[1] + by>>
    /\ renderOutputList(outputTeams')
    /\ UNCHANGED <<codecVars, loadedFiles, sourceTeams, rawBuffers, tournamentNameInput,
                   toast, clicks, selectedSource, standings, isManualOrder, unitVars>>

\* selectAll
SelectAll ==
    /\ edits < MaxEdits
    /\ edits' = edits + 1
    /\ selectedSource' = [k \in 1..Len(sourceTeams) |-> k - 1]
    /\ UNCHANGED <<codecVars, loadedFiles, sourceTeams, rawBuffers, tournamentNameInput,
                   viewerTeams, resultsAsc, resultsDesc, toast, clicks, outputTeams,
                   selectedOutput, standings, isManualOrder, unitVars>>

\* shuffle: Math.random decides the order, perm is the one it came to
Shuffle(perm) ==
    /\ edits < MaxEdits
    /\ edits' = edits + 1
    /\ outputTeams' = [k \in 1..Len(outputTeams) |-> outputTeams[perm[k]]]
    /\ selectedOutput' = <<>>
    /\ renderOutputList(outputTeams')
    /\ toast' = [type |-> "success", file |-> 0, kind |-> "shuffle"]
    /\ UNCHANGED <<codecVars, loadedFiles, sourceTeams, rawBuffers, tournamentNameInput,
                   clicks, selectedSource, standings, isManualOrder, unitVars>>

\* clearOutput
ClearOutput ==
    /\ edits < MaxEdits
    /\ edits' = edits + 1
    /\ outputTeams' = <<>>
    /\ selectedOutput' = <<>>
    /\ renderOutputList(outputTeams')
    /\ UNCHANGED <<codecVars, loadedFiles, sourceTeams, rawBuffers, tournamentNameInput,
                   toast, clicks, selectedSource, standings, isManualOrder, unitVars>>

\* reverseOutput
ReverseOutput ==
    /\ edits < MaxEdits
    /\ edits' = edits + 1
    /\ outputTeams' = reverse(outputTeams)
    /\ selectedOutput' = <<>>
    /\ renderOutputList(outputTeams')
    /\ UNCHANGED <<codecVars, loadedFiles, sourceTeams, rawBuffers, tournamentNameInput,
                   toast, clicks, selectedSource, standings, isManualOrder, unitVars>>

\* clearAll: both lists, both selections and the raw buffers; App.loadedFiles stays
ClearAll ==
    /\ edits < MaxEdits
    /\ edits' = edits + 1
    /\ sourceTeams' = <<>>
    /\ outputTeams' = <<>>
    /\ selectedSource' = <<>>
    /\ selectedOutput' = <<>>
    /\ rawBuffers' = <<>>
    /\ renderOutputList(outputTeams')
    /\ toast' = [type |-> "success", file |-> 0, kind |-> "clear"]
    /\ UNCHANGED <<codecVars, loadedFiles, tournamentNameInput, clicks, standings,
                   isManualOrder, unitVars>>

\* the drop handler of a list after its item at from was dragged to position to:
\* updateListOrder(listId, listProp)
DragSource(from, to) ==
    /\ edits < MaxEdits
    /\ edits' = edits + 1
    /\ sourceTeams' = dragged(sourceTeams, from, to)
    /\ selectedSource' = <<>>
    /\ UNCHANGED <<codecVars, loadedFiles, rawBuffers, tournamentNameInput, viewerTeams,
                   resultsAsc, resultsDesc, toast, clicks, outputTeams, selectedOutput,
                   standings, isManualOrder, unitVars>>

DragOutput(from, to) ==
    /\ edits < MaxEdits
    /\ edits' = edits + 1
    /\ outputTeams' = dragged(outputTeams, from, to)
    /\ selectedOutput' = <<>>
    /\ renderOutputList(outputTeams')
    /\ UNCHANGED <<codecVars, loadedFiles, sourceTeams, rawBuffers, tournamentNameInput,
                   toast, clicks, selectedSource, standings, isManualOrder, unitVars>>

\* App.reset: loadedFiles emptied, then TeamEditor.reset (which renders the empty
\* output list), TableViewer.reset (teams = []; resultsAsc and resultsDesc are not
\* assigned) and ResultCalc.reset (standings = [])
AppReset ==
    /\ edits < MaxEdits
    /\ edits' = edits + 1
    /\ loadedFiles' = <<>>
    /\ sourceTeams' = <<>>
    /\ outputTeams' = <<>>
    /\ selectedSource' = <<>>
    /\ selectedOutput' = <<>>
    /\ rawBuffers' = <<>>
    /\ renderOutputList(<<>>)
    /\ standings' = <<>>
    /\ toast' = [type |-> "success", file |-> 0, kind |-> "reset"]
    /\ UNCHANGED <<codecVars, tournamentNameInput, clicks, isManualOrder, unitVars>>

\* saveCHE with the save-format select at format ("team" or "match"): the error toast
\* for fewer than 2 or more than 16 teams; for the team format the error toast when a
\* team has no rawBuffer; otherwise the file is generated and downloaded, with the
\* error toast when generateMatchFile throws
SaveCHE(format) ==
    /\ edits < MaxEdits
    /\ edits' = edits + 1
    /\ LET tournamentName ==
               IF tournamentNameInput = <<>> THEN DefaultName ELSE tournamentNameInput
           teamsWithBuffer == SelectSeq(outputTeams, LAMBDA t : t.rawBuffer # Null)
       IN  IF Len(outputTeams) < 2 \/ Len(outputTeams) > MAX_OUTPUT
           THEN /\ toast' = [type |-> "error", file |-> 0, kind |-> "count"]
                /\ UNCHANGED <<nextOkeBlockIndex, gen, prev, readBack, teamFile>>
           ELSE IF format = "team" /\ Len(teamsWithBuffer) # Len(outputTeams)
           THEN /\ toast' = [type |-> "error", file |-> 0, kind |-> "rawBuffer"]
                /\ UNCHANGED <<nextOkeBlockIndex, gen, prev, readBack, teamFile>>
           ELSE IF format = "match"
           THEN /\ gen' = GenCall(outputTeams, tournamentName, templateData,
                                  nextOkeBlockIndex)
                /\ nextOkeBlockIndex' = gen'.next
                /\ prev' = NoPrev
                /\ readBack' = NoParse
                /\ toast' = IF gen'.err
                            THEN [type |-> "error", file |-> 0, kind |-> "save"]
                            ELSE [type |-> "success", file |-> 0, kind |-> "save"]
                /\ UNCHANGED teamFile
           ELSE /\ teamFile' = [called |-> TRUE, teams |-> outputTeams,
                                output |-> generateTeamFile(outputTeams)]
                /\ toast' = [type |-> "success", file |-> 0, kind |-> "save"]
                /\ UNCHANGED <<nextOkeBlockIndex, gen, prev, readBack>>
    /\ UNCHANGED <<templateData, parsedTeams, parsedFiles, lastParse, loadedFiles,
                   sourceTeams, rawBuffers, tournamentNameInput, viewerTeams, resultsAsc,
                   resultsDesc, clicks, outputTeams, selectedSource, selectedOutput,
                   standings, isManualOrder, codec, matrix>>

\* the files dropped in a session: FileB (2 teams, with results) and CutFile
SessionFiles == {2, 9}

\* the bound on the cell clicks of a session
MaxSessionClicks == 1

\* SpecSession: after the template load, files are dropped (each once), all teams are
\* selected, added to the output list, moved and saved in either format, cells of
\* both tables are clicked, and the application is reset
NextSession ==
    \/ templateData = Null /\ edits = 0 /\ loadedFiles = <<>> /\ LoadTemplate(TRUE, TemplateA)
    \/ \E f \in SessionFiles :
          (\A k \in 1..Len(loadedFiles) : loadedFiles[k][1] # f) /\ ReadFile(f)
    \/ SelectAll
    \/ AddTeams
    \/ \E index \in 0..(Len(outputTeams) - 1), multi \in BOOLEAN :
          ToggleOutputSelection(index, multi)
    \/ \E by \in {-1, 1} : Move(by)
    \/ \E row, col \in 0..(Len(viewerTeams) - 1), isReverse \in BOOLEAN :
          clicks < MaxSessionClicks /\ CellClick(row, col, isReverse)
    \/ \E format \in {"team", "match"} : SaveCHE(format)
    \/ AppReset

SpecSession == Init /\ [][NextSession]_vars

\* the list positions the handlers are tried at: every position of a list of at most
\* MaxList items, the first and the last of a longer one
Positions(n) == IF n <= MaxList THEN 0..(n - 1) ELSE {0, n - 1}
\* the orders shuffle is tried with: every order of a list of at most MaxList teams,
\* the list turned by one place and the list with its ends exchanged for a longer one
ShuffleOrders(n) ==
    IF n <= MaxList
    THEN {p \in [1..n -> 1..n] : \A i, j \in 1..n : p[i] = p[j] => i = j}
    ELSE {[k \in 1..n |-> (k % n) + 1],
          [k \in 1..n |-> IF k = 1 THEN n ELSE IF k = n THEN 1 ELSE k]}

\* the file dropped while the lists are edited: File17, with 17 teams
EditorFiles == {10}

\* SpecEditor: the file is dropped (again after a reset) and the lists are edited with
\* every handler of the editor, MaxEdits handlers in a run
NextEditor ==
    \/ \E f \in EditorFiles :
          (\A k \in 1..Len(loadedFiles) : loadedFiles[k][1] # f) /\ ReadFile(f)
    \/ \E index \in Positions(Len(sourceTeams)), multi \in BOOLEAN :
          ToggleSourceSelection(index, multi)
    \/ SelectAll
    \/ AddTeams
    \/ \E index \in Positions(Len(outputTeams)), multi \in BOOLEAN :
          ToggleOutputSelection(index, multi)
    \/ RemoveTeams
    \/ \E by \in {-1, 1} : Move(by)
    \/ \E perm \in ShuffleOrders(Len(outputTeams)) : Shuffle(perm)
    \/ ClearOutput
    \/ ReverseOutput
    \/ ClearAll
    \/ \E from, to \in Positions(Len(sourceTeams)) : DragSource(from, to)
    \/ \E from, to \in Positions(Len(outputTeams)) : DragOutput(from, to)
    \/ AppReset

SpecEditor == Init /\ [][NextEditor]_vars

\* ------------------------------------------------------------------ result calculator
\* how often value occurs in row index of results outside the diagonal; 0 for a row
\* the matrix does not have
CountRes(results, index, value) ==
    IF index \notin DOMAIN results THEN 0
    ELSE Cardinality({j \in DOMAIN results[index] : j # index /\ results[index][j] = value})

\* the tally of one kind of result for team index: from the asc or the desc matrix, or
\* from both added up for the data source 'merged'
Tally(dataSource, index, value) ==
    IF dataSource = "merged"
    THEN CountRes(resultsAsc, index, value) + CountRes(resultsDesc, index, value)
    ELSE IF dataSource = "asc" THEN CountRes(resultsAsc, index, value)
    ELSE CountRes(resultsDesc, index, value)

\* (wins / played * 100).toFixed(1) in tenths of a percent, 0 when nothing was played.
\* With the team counts used here no quotient lies halfway between two tenths.
winRateOf(wins, played) ==
    IF played > 0 THEN (wins * 2000 + played) \div (2 * played) ELSE 0

\* the row calculate builds for the team at index (team is teams[index])
standingOf(dataSource, pts, index) ==
    LET wins   == Tally(dataSource, index, 1)
        losses == Tally(dataSource, index, 2)
        draws  == Tally(dataSource, index, 3)
    IN  [index |-> index, wins |-> wins, draws |-> draws, losses |-> losses,
         played |-> wins + draws + losses,
         points |-> wins * pts[1] + draws * pts[2] + losses * pts[3],
         winRate |-> winRateOf(wins, wins + draws + losses), rank |-> 0]

\* the comparator of sortStandings is negative: a before b by points, wins, win rate
ranksBefore(a, b) ==
    IF b.points # a.points THEN a.points > b.points
    ELSE IF b.wins # a.wins THEN a.wins > b.wins
    ELSE a.winRate > b.winRate

\* standings.sort(comparator): the sort is stable
RECURSIVE insertRanked(_, _)
insertRanked(sorted, x) ==
    IF sorted = <<>> THEN <<x>>
    ELSE IF ranksBefore(x, Head(sorted)) THEN <<x>> \o sorted
         ELSE <<Head(sorted)>> \o insertRanked(Tail(sorted), x)
RECURSIVE sortRanked(_, _)
sortRanked(s, k) == IF k = 0 THEN <<>> ELSE insertRanked(sortRanked(s, k - 1), s[k])

\* s.rank = i + 1 for every row
renumber(rows) == [k \in 1..Len(rows) |-> [rows[k] EXCEPT !.rank = k]]

\* sortStandings: in manual mode only the ranks are renumbered
sortStandings(rows, manual) ==
    IF manual THEN renumber(rows) ELSE renumber(sortRanked(rows, Len(rows)))

\* calculate from teams.map on: the rows in team order, then sortStandings
calculate(dataSource, pts, manual) ==
    sortStandings([k \in 1..Len(viewerTeams) |-> standingOf(dataSource, pts, k - 1)], manual)

\* the results calculate takes for the data source: an empty one makes it return
\* before the rows are built
HasResults(dataSource) ==
    IF dataSource = "asc" THEN DOMAIN resultsAsc # {}
    ELSE IF dataSource = "desc" THEN DOMAIN resultsDesc # {}
    ELSE Len(viewerTeams) > 0

\* ResultCalc.calculate(), run by the calc button and by a change of the data source
\* or of a point field, with the data source and the point fields at these values;
\* without teams or results it returns after renderEmpty
Calculate(dataSource, pts) ==
    /\ Len(viewerTeams) > 0
    /\ HasResults(dataSource)
    /\ standings' = calculate(dataSource, pts, isManualOrder)
    /\ UNCHANGED <<codecVars, loadedFiles, sourceTeams, rawBuffers, tournamentNameInput,
                   viewerTeams, resultsAsc, resultsDesc, toast, clicks, outputTeams,
                   selectedSource, selectedOutput, isManualOrder, edits, unitVars>>

\* the drop handler of a row after the row at from was dragged to position to:
\* updateStandingsOrder
DragStanding(from, to) ==
    /\ standings' = renumber(dragged(standings, from, to))
    /\ isManualOrder' = TRUE
    /\ UNCHANGED <<codecVars, loadedFiles, sourceTeams, rawBuffers, tournamentNameInput,
                   viewerTeams, resultsAsc, resultsDesc, toast, clicks, outputTeams,
                   selectedSource, selectedOutput, edits, unitVars>>

\* the reset-ranking button: isManualOrder = false, then calculate()
ResetRanking(dataSource, pts) ==
    /\ isManualOrder' = FALSE
    /\ standings' = IF Len(viewerTeams) > 0 /\ HasResults(dataSource)
                    THEN calculate(dataSource, pts, FALSE)
                    ELSE standings
    /\ UNCHANGED <<codecVars, loadedFiles, sourceTeams, rawBuffers, tournamentNameInput,
                   viewerTeams, resultsAsc, resultsDesc, toast, clicks, outputTeams,
                   selectedSource, selectedOutput, edits, unitVars>>

\* the values of the data-source select and of the win, draw and lose point fields
DataSources == {"asc", "desc", "merged"}
PointSettings == {<<3, 1, 0>>, <<2, 1, 1>>}

\* SpecStandings: FileA and FileB are dropped (each once), the output list is set to
\* the first teams of the source list, cells are clicked, the standings are
\* calculated, rows are dragged and the ranking is reset
NextStandings ==
    \/ \E f \in ViewerFiles :
          (\A k \in 1..Len(loadedFiles) : loadedFiles[k][1] # f) /\ ReadFile(f)
    \/ \E n \in 0..MaxManual :
          n <= Len(sourceTeams) /\ SetTeamsForManualInput(Take(sourceTeams, n))
    \/ \E row, col \in 0..(Len(viewerTeams) - 1) :
          clicks < MaxSessionClicks /\ CellClick(row, col, FALSE)
    \/ \E dataSource \in DataSources, pts \in PointSettings : Calculate(dataSource, pts)
    \/ \E from, to \in 0..(Len(standings) - 1) : DragStanding(from, to)
    \/ \E dataSource \in DataSources, pts \in PointSettings : ResetRanking(dataSource, pts)

SpecStandings == Init /\ [][NextStandings]_vars

\* ------------------------------------------------------------------ properties
\* the teams a call writes, the start of slot i, and the 32-bit value of
\* block-reference entry k (0..2) in a team's raw slot and in slot i of the output
Written(g) == Take(g.teams, MAX_SLOTS)
SlotStart(i) == SLOT_START_OFFSET + i * SLOT_SIZE
RawRef(t, k) == Bits32(t.rawBuffer, 184 + 48 * k)
OutRef(g, i, k) == Bits32(g.output, SlotStart(i) + 184 + 48 * k)
BlockStart(n) == OKE_BLOCK_START + n * OKE_BLOCK_SIZE
FromTournament(t) == t.isMatchDerived /\ t.rawBuffer # Null

\* the payload bytes compared: the first bytes of a block, which identify it
PayloadProbe == {0, 1}
SamePayload(out, at, data) ==
    \A j \in PayloadProbe : j < data.len => ByteAt(out, at + j) = ByteAt(data, j)

\* C1: for a list of at most 16 tournament-origin teams, parsing the generated buffer
\* gives as many teams, and the team at every position has the name, owner and
\* primary color of the input team at that position
RoundTripTournamentTeams ==
    (/\ gen.called /\ ~gen.err /\ readBack # NoParse
     /\ Len(gen.teams) <= MAX_SLOTS
     /\ \A k \in 1..Len(gen.teams) : FromTournament(gen.teams[k]))
    => /\ Len(readBack.teams) = Len(gen.teams)
       /\ \A k \in 1..Len(gen.teams) : readBack.teams[k] = TeamSummary(gen.teams[k])

\* the byte ranges <<first, past the last>> a call with n teams may change
MayChange(g) ==
    { <<24, 40>>, <<360, 384>>, <<52, 60>>, <<388, 396>>,
      <<SLOT_START_OFFSET, SlotStart(Len(Written(g)))>> }
    \cup { <<BlockStart(g.placed[k].newIndex), BlockStart(g.placed[k].newIndex + 1)>> :
             k \in 1..Len(g.placed) }
TemplateByte(g, o) == IF o < g.tmpl.len THEN ByteAt(g.tmpl, o) ELSE 0
\* a write of the call (every write after the copy of the template) respects the frame
\* when it lies inside one range, or when each of its bytes does or equals the template
WriteInFrame(g, l) ==
    \/ \E r \in MayChange(g) : r[1] <= l.at /\ l.at + l.n <= r[2]
    \/ \A o \in l.at..(l.at + l.n - 1) :
          \/ \E r \in MayChange(g) : r[1] <= o /\ o < r[2]
          \/ ByteAt(g.output, o) = TemplateByte(g, o)

\* C2: relative to the template a call changes only the name fields, the count fields,
\* the slots of the first min(n,16) teams and the block-table entries that received
\* relocated blocks
OnlyFrameChanges ==
    (gen.called /\ ~gen.err)
    => \A k \in 2..Len(gen.output.layers) : WriteInFrame(gen, gen.output.layers[k])

\* C3: every reference entry the generator rewrites points at a block-table entry
\* holding the payload the team referenced at parse time
RewrittenRefsResolve ==
    (gen.called /\ ~gen.err)
    => \A i \in 0..(Len(Written(gen)) - 1) :
         LET t == gen.teams[i + 1] IN
         (FromTournament(t) /\ Len(t.okeBlocks) > 0)
         => \A k \in 0..2 :
              (ULess(RawRef(t, k), 31) /\ RawRef(t, k) \in DOMAIN gen.indexMap)
              => \A b \in 1..Len(t.okeBlocks) :
                   t.okeBlocks[b].originalIndex = RawRef(t, k)
                   => SamePayload(gen.output, BlockStart(OutRef(gen, i, k)),
                                  t.okeBlocks[b].data)

\* team t references a parsed block through the value v of one of its entries
References(t, v) ==
    /\ FromTournament(t) /\ ULess(v, 31)
    /\ \E b \in 1..Len(t.okeBlocks) : t.okeBlocks[b].originalIndex = v

\* C4: when two written teams reference the same original block index, that block is
\* copied exactly once and both entries hold the same new index
SharedBlockCopiedOnce ==
    (gen.called /\ ~gen.err)
    => \A i, j \in 0..(Len(Written(gen)) - 1) : \A k, l \in 0..2 :
         LET ti == gen.teams[i + 1]
             tj == gen.teams[j + 1]
         IN  (/\ i < j
              /\ FromTournament(ti) /\ FromTournament(tj)
              /\ RawRef(ti, k) = RawRef(tj, l)
              /\ References(ti, RawRef(ti, k)) /\ References(tj, RawRef(tj, l)))
             => /\ Cardinality({p \in 1..Len(gen.placed) :
                                  gen.placed[p].originalIndex = RawRef(ti, k)}) = 1
                /\ OutRef(gen, i, k) = OutRef(gen, j, l)

\* C5: every team a parse call returns has a non-empty name
ParsedTeamsAreNamed ==
    \A k \in 1..Len(lastParse.teams) : Len(lastParse.teams[k].name) > 0

\* the block arrivals of a call, <<slot, position in the team's block list>>, the
\* order they arrive in, and the original index each carries
Arrivals(g) ==
    { p \in (0..(Len(Written(g)) - 1)) \X (1..3) :
        FromTournament(g.teams[p[1] + 1]) /\ p[2] <= Len(g.teams[p[1] + 1].okeBlocks) }
Earlier(p, q) == p[1] < q[1] \/ (p[1] = q[1] /\ p[2] < q[2])
KeyOf(g, p) == g.teams[p[1] + 1].okeBlocks[p[2]].originalIndex
\* the first arrival of each original index
Firsts(g) ==
    CHOOSE firsts \in
      { LET arr == Arrivals(g) IN
        { p \in arr : ~\E q \in arr : Earlier(q, p) /\ KeyOf(g, q) = KeyOf(g, p) } } : TRUE
\* for each original index that arrives, how many first arrivals precede its own
RankOfKey(g) ==
    CHOOSE rank \in
      { [v \in { KeyOf(g, p) : p \in firsts } |->
           LET f == CHOOSE p \in firsts : KeyOf(g, p) = v
           IN  Cardinality({ q \in firsts : Earlier(q, f) })] : firsts \in {Firsts(g)} } : TRUE

\* C9: at most 31 blocks are placed, at indices 0, 1, 2, ... in order of first
\* appearance; a block arriving when 31 are placed is dropped without error and the
\* entries that pointed at it keep the value copied from the raw slot
PlacesAtMost31InOrder ==
    (gen.called /\ gen.tmpl # Null)
    => \A firsts \in {Firsts(gen)} : \A rank \in {RankOfKey(gen)} :
       \A late \in {{ p \in Arrivals(gen) : rank[KeyOf(gen, p)] >= 31 }} :
           /\ ~gen.err
           /\ Len(gen.placed) <= 31
           /\ Len(gen.placed) = Min2(31, Cardinality(firsts))
           /\ gen.next = Len(gen.placed)
           /\ \A k \in 1..Len(gen.placed) :
                /\ gen.placed[k].newIndex = k - 1
                /\ SamePayload(gen.output, BlockStart(k - 1), gen.placed[k].data)
           /\ \A p \in firsts :
                LET v == KeyOf(gen, p) IN
                rank[v] < 31
                => /\ gen.placed[rank[v] + 1].originalIndex = v
                   /\ gen.placed[rank[v] + 1].slot = p[1]
                   /\ v \in DOMAIN gen.indexMap
                   /\ gen.indexMap[v] = rank[v]
           /\ Len(gen.dropped) = Cardinality(late)
           /\ \A p \in late :
                /\ KeyOf(gen, p) \notin DOMAIN gen.indexMap
                /\ \A k \in 0..2 :
                     RawRef(gen.teams[p[1] + 1], k) = KeyOf(gen, p)
                     => OutRef(gen, p[1], k) = RawRef(gen.teams[p[1] + 1], k)

\* a call found 31 blocks placed when one more arrived
BlockDroppedAtCapacity ==
    gen.called /\ ~gen.err /\ Len(gen.placed) = 31 /\ Len(gen.dropped) > 0

\* the 24 bytes of the name field of a team's raw data, and of slot i of the output
RawName(t) ==
    [j \in 0..23 |-> ByteAt(t.rawBuffer, (IF t.isMatchDerived THEN 84 ELSE 640) + j)]
OutName(g, i) == [j \in 0..23 |-> ByteAt(g.output, SlotStart(i) + 84 + j)]

\* C10: for a list of any length n the call raises no error, writes the first
\* c = min(n,16) teams in their order and no other, and stores c and c(c-1)/2 in
\* the header, which a parse of the output reads back
StoresCappedCounts ==
    (gen.called /\ gen.tmpl # Null)
    => LET n == Len(gen.teams)
           c == IF n < 16 THEN n ELSE 16
       IN  /\ ~gen.err
           /\ getUint32(gen.output, 52) = c
           /\ getUint32(gen.output, 56) = (c * (c - 1)) \div 2
           /\ \A i \in 0..(c - 1) : OutName(gen, i) = RawName(gen.teams[i + 1])
           /\ \A i \in c..(n - 1) : OutName(gen, i) # RawName(gen.teams[i + 1])
           /\ readBack # NoParse
              => /\ readBack.type = "match"
                 /\ readBack.teamCount = c
                 /\ readBack.matchCount = (c * (c - 1)) \div 2
                 /\ Len(readBack.teams) = c
                 /\ \A k \in 1..c :
                      FromTournament(gen.teams[k])
                      => /\ readBack.teams[k].name = gen.teams[k].name
                         /\ readBack.teams[k].owner = gen.teams[k].owner

\* a list of more than 16 teams was generated and parsed back
LongListReadBack ==
    gen.called /\ ~gen.err /\ Len(gen.teams) > 16 /\ readBack # NoParse

\* the first 4 bytes of a buffer, or all of it when it is shorter
TagOf(b) == [j \in 1..Min2(4, b.len) |-> ByteAt(b, j - 1)]
\* what readFile leaves alone when parse throws
KeptOnFailure ==
    <<templateData, nextOkeBlockIndex, loadedFiles, sourceTeams, rawBuffers,
      tournamentNameInput, viewerTeams, resultsAsc, resultsDesc>>

\* C6: parse gives a team file for tag CETD, a tournament file for tag CEMD and fails
\* for every other buffer, one shorter than 4 bytes included; reading a file whose
\* parse fails changes nothing but the notification
ParseDispatchesOnTag ==
    /\ [](toast.type = "success"
            => \/ toast.kind = "team" /\ TagOf(InputFiles[toast.file]) = TYPE_TEAM
               \/ toast.kind = "match" /\ TagOf(InputFiles[toast.file]) = TYPE_MATCH)
    /\ [](toast.type = "error" => TagOf(InputFiles[toast.file]) \notin {TYPE_TEAM, TYPE_MATCH})
    /\ [][\A f \in 1..Len(InputFiles) :
            (TagOf(InputFiles[f]) \notin {TYPE_TEAM, TYPE_MATCH} /\ ReadFile(f))
            => /\ toast'.type = "error"
               /\ KeptOnFailure' = KeptOnFailure]_vars
    /\ [][toast'.type = "success" /\ toast' # toast
            => Len(loadedFiles') = Len(loadedFiles) + 1]_vars

\* a buffer of fewer than 4 bytes was rejected after a tournament file was loaded
ShortBufferRejected ==
    /\ toast.type = "error" /\ InputFiles[toast.file].len < 4
    /\ Len(sourceTeams) > 0 /\ resultsAsc # <<>> /\ templateData # Null

\* C7: a call without a template fails before any output and leaves the template
\* state and the relocation counter as they were; the same call succeeds once a
\* template is loaded
FailsWithoutTemplate ==
    /\ [](gen.called
            => /\ gen.err <=> gen.tmpl = Null
               /\ gen.err => /\ gen.output = EmptyBuf
                             /\ gen.placed = <<>>
                             /\ nextOkeBlockIndex = gen.before
               /\ ~gen.err => gen.output.len = TOTAL_FILE_SIZE)
    /\ [][(templateData = Null /\ nextOkeBlockIndex' # nextOkeBlockIndex) => FALSE]_vars
    /\ [][(gen' # gen \/ prev' # prev) => templateData' = templateData]_vars

\* a call that failed for want of a template succeeded when repeated after a load
RetrySucceeded ==
    prev.called /\ prev.err /\ gen.called /\ ~gen.err /\ gen.before # Undef

\* C8: the result of a call depends only on its arguments and the template: the call
\* starts from an empty relocation map and counter 0 and leaves the template alone,
\* so a call returns what the very first call with these arguments would return, and
\* what the same call returned before
DependsOnlyOnArguments ==
    /\ []((gen.called /\ ~gen.err)
            => /\ \A k \in 1..Len(gen.placed) : gen.placed[k].newIndex = k - 1
               /\ DOMAIN gen.indexMap =
                    { gen.placed[k].originalIndex : k \in 1..Len(gen.placed) }
               /\ gen.next = Len(gen.placed)
               /\ gen.output = generateMatchFile(gen.teams, gen.name, gen.tmpl, Undef).output
               /\ (prev.called /\ ~prev.err /\ prev.tmpl = gen.tmpl)
                  => prev.output = gen.output)
    /\ [][(gen' # gen \/ prev' # prev) => templateData' = templateData]_vars

\* the same call was made twice, the second time with a counter an earlier call left
\* above 0
RepeatedAfterOtherCalls ==
    /\ prev.called /\ ~prev.err /\ gen.called /\ ~gen.err
    /\ prev.tmpl = gen.tmpl /\ Len(gen.placed) > 0 /\ gen.before > 0

\* the region of a team in a team-file concatenation: its size, and where the
\* region of the k-th team starts
RegionSize(t) == IF t.rawBuffer # Null THEN t.rawBuffer.len ELSE TEAM_FILE_SIZE
RECURSIVE RegionStart(_, _)
RegionStart(teams, k) ==
    IF k <= 1 THEN 0 ELSE RegionStart(teams, k - 1) + RegionSize(teams[k - 1])
\* the offsets of a region that are compared: its first bytes, the palette, name and
\* owner fields of either format, and its last byte
RegionProbe(t) ==
    {o \in (0..7) \cup (20..27) \cup {84, 85, 108, 576, 580, 640, 641, 664, RegionSize(t) - 1} :
        o < RegionSize(t)}

\* C11: generateTeamFile returns one region per team in list order, the raw data of
\* the team or 24512 zero bytes, each starting where the regions before it end
TeamFileConcatenatesRegions ==
    teamFile.called
    => /\ teamFile.output.len = RegionStart(teamFile.teams, Len(teamFile.teams) + 1)
       /\ \A k \in 1..Len(teamFile.teams) :
            LET t == teamFile.teams[k] IN
            \A o \in RegionProbe(t) :
               ByteAt(teamFile.output, RegionStart(teamFile.teams, k) + o)
                 = (IF t.rawBuffer # Null THEN ByteAt(t.rawBuffer, o) ELSE 0)

\* the same, for lists in which no team without raw data precedes one with raw data
TeamFileConcatenatesRawData ==
    (/\ teamFile.called
     /\ \A j, k \in 1..Len(teamFile.teams) :
          (j < k /\ teamFile.teams[j].rawBuffer = Null) => teamFile.teams[k].rawBuffer = Null)
    => TeamFileConcatenatesRegions

\* the mirror relation of a result matrix
Mirrored(M) ==
    \A i, j \in DOMAIN M :
       i # j => /\ M[i][j] \in {0, 1, 2, 3}
                /\ M[i][j] = 1 <=> M[j][i] = 2
                /\ M[i][j] = 3 <=> M[j][i] = 3
                /\ M[i][j] = 0 <=> M[j][i] = 0
Diagonal(M) == [i \in DOMAIN M |-> M[i][i]]

\* C12: after any sequence of match-data loads, manual-input resets and cell clicks
\* both result matrices satisfy the mirror relation, and a click changes no diagonal
\* entry
ResultsStayMirrored ==
    /\ [](Mirrored(resultsAsc) /\ Mirrored(resultsDesc))
    /\ [][clicks' # clicks
            => /\ Diagonal(resultsAsc') = Diagonal(resultsAsc)
               /\ Diagonal(resultsDesc') = Diagonal(resultsDesc)]_vars

\* both tables of three loaded teams were clicked: one holds a win and its loss, the
\* other a draw
BothTablesClicked ==
    /\ clicks >= 2 /\ Len(viewerTeams) = 3 /\ Len(loadedFiles) > 0
    /\ \E i, j \in DOMAIN resultsAsc : resultsAsc[i][j] = 1 /\ resultsAsc[j][i] = 2
    /\ \E i, j \in DOMAIN resultsDesc : i # j /\ resultsDesc[i][j] = 3

\* C13: a 24-byte name field holding a name followed by 0xFF padding is read as the
\* name alone, and encoding and decoding the string read gives the same string
PaddedNameDecodesToName ==
    (codec.op = "read" /\ codec.pad = 255)
    => /\ codec.text = toUTF8In(codec.backend, BufOf(codec.name))
       /\ codec.again = codec.text

\* the same for a field padded with 0x00 or with spaces
OtherPaddingDecodesToName ==
    (codec.op = "read" /\ codec.pad # 255)
    => /\ codec.text = toUTF8In(codec.backend, BufOf(codec.name))
       /\ codec.again = codec.text

\* the code units the encoder has a code for: ASCII, half-width kana, the hiragana,
\* katakana and full-width ranges, and the ideograph table
HasCode(c) ==
    \/ c <= 127
    \/ c >= 65377 /\ c <= 65439         \* U+FF61..U+FF9F
    \/ c >= 12353 /\ c <= 12435         \* U+3041..U+3093
    \/ c >= 12449 /\ c <= 12534         \* U+30A1..U+30F6
    \/ c >= 65281 /\ c <= 65374         \* U+FF01..U+FF5E
    \/ c \in DOMAIN UNICODE_TO_SJIS_MAP
SingleByte(c) == c <= 127 \/ (c >= 65377 /\ c <= 65439)

\* C14: the encoding of a string without U+0000 holds no 0x00 byte; a character
\* without a code is encoded as the single byte 0x3F; decoding the encoding gives the
\* string back when it is made of ASCII and half-width kana, and "?" for a single
\* character without a code
EncodingHasNoNul ==
    codec.op = "coded"
    => /\ \A k \in 1..Len(codec.bytes) : codec.bytes[k] # 0
       /\ (\A k \in 1..Len(codec.str) : ~HasCode(codec.str[k]))
          => codec.bytes = [k \in 1..Len(codec.str) |-> 63]
       /\ (\A k \in 1..Len(codec.str) : SingleByte(codec.str[k]))
          => codec.text = codec.str
       /\ (Len(codec.str) = 1 /\ ~HasCode(codec.str[1]))
          => codec.text = <<63>>

\* a character without a code followed by a half-width kana was encoded, and decoded
\* where TextDecoder exists
UnknownCharacterCoded ==
    /\ codec.op = "coded" /\ codec.backend = "TextDecoder"
    /\ Len(codec.str) = 2 /\ ~HasCode(codec.str[1]) /\ codec.str[2] = 65439

\* C15: once a loadTemplate call has succeeded the template stays loaded whatever a
\* later loadTemplate call does, so every generateMatchFile call made from then on
\* passes the template check
TemplateStaysLoaded ==
    /\ [][templateData # Null => templateData' # Null]_vars
    /\ [][(templateData # Null /\ gen' # gen) => ~gen'.err]_vars

\* the entries of a parsed tournament team whose value, read unsigned, is in 0..30
LiveEntries(t) == {k \in 0..2 : ULess(RawRef(t, k), 31)}
\* block b of team t is the block-table entry of its original index
FromBlockTable(t, b) ==
    LET block == t.okeBlocks[b]
    IN  /\ block.originalIndex \in 0..30
        /\ block.data.len = OKE_BLOCK_SIZE
        /\ block.data.layers[1].from = BlockStart(block.originalIndex)

\* C16: the tournament parser records a block for a reference entry only if the
\* value, read as an unsigned integer, is in 0..30: every block of every parsed team
\* has an original index in 0..30 and the payload of that block-table entry, and an
\* entry of 31 or more yields no block
BlocksOnlyForLiveEntries ==
    \A n \in 1..Len(parsedTeams) :
       LET t == parsedTeams[n] IN
       FromTournament(t)
       => /\ Len(t.okeBlocks) = Cardinality(LiveEntries(t))
          /\ \A b \in 1..Len(t.okeBlocks) : FromBlockTable(t, b)

\* the same for the teams none of whose entries has the top bit set
BlocksOnlyForLiveEntriesBelowTopBit ==
    \A n \in 1..Len(parsedTeams) :
       LET t == parsedTeams[n] IN
       (FromTournament(t) /\ \A k \in 0..2 : RawRef(t, k) >= 0)
       => /\ Len(t.okeBlocks) = Cardinality(LiveEntries(t))
          /\ \A b \in 1..Len(t.okeBlocks) : FromBlockTable(t, b)

\* a team parsed from a team file
FromTeamFile(t) == t.rawBuffer # Null /\ ~t.isMatchDerived
\* the slot offsets compared: around the ends of the palette, name and owner fields,
\* before the first block-reference entry and after the last
SlotProbe == {0, 1, 19, 20, 21, 26, 27, 28, 83, 84, 85, 107, 108, 109, 131, 132, 183, 328, 831}
\* the byte the remap leaves at slot offset o for a team with raw data src
RemappedByte(g, i, src, o) ==
    IF o >= 20 /\ o < 84 THEN ByteAt(src, 576 + (o - 20))             \* palette
    ELSE IF o >= 84 /\ o < 108 THEN ByteAt(src, 640 + (o - 84))       \* name
    ELSE IF o >= 108 /\ o < 132 THEN ByteAt(src, 664 + (o - 108))     \* owner
    ELSE TemplateByte(g, SlotStart(i) + o)
SlotRemapped(g, i) ==
    \A o \in SlotProbe :
       ByteAt(g.output, SlotStart(i) + o) = RemappedByte(g, i, g.teams[i + 1].rawBuffer, o)

\* C17: for a team-file team written to slot i the palette, name and owner bytes of
\* its file are at slot offsets 0x14, 0x54 and 0x6C, and every other byte of the slot
\* outside the 3 block-reference entries keeps its template value
TeamFileFieldsRemapped ==
    (gen.called /\ ~gen.err)
    => \A i \in 0..(Len(Written(gen)) - 1) :
          FromTeamFile(gen.teams[i + 1]) => SlotRemapped(gen, i)

\* the same for the slots before the one the result matrix is written in
TeamFileFieldsRemappedBeforeMatrix ==
    (gen.called /\ ~gen.err)
    => \A i \in 0..(Len(Written(gen)) - 1) :
          (FromTeamFile(gen.teams[i + 1]) /\ i < MATRIX_TEAMS) => SlotRemapped(gen, i)

\* block-reference entry k of slot i: where it starts, the index the template left
\* there, and the bytes of it that are compared (index, type tag, active flag, and
\* the first two and the last of the 36 statistics bytes)
EntryStart(i, k) == SlotStart(i) + 184 + 48 * k
TemplateIndex(g, i, k) == Bits32(g.tmpl, EntryStart(i, k))
EntryProbe == (0..13) \cup {47}
EntryBytes(b, i, k) == [o \in EntryProbe |-> ByteAt(b, EntryStart(i, k) + o)]
\* the default entry for position k
DefaultEntry(k) ==
    LET all == LE32(BASE_OKE_INDICES[k + 1]) \o OKE_MAGIC \o OKE_FLAG \o Zeros(36)
    IN  [o \in EntryProbe |-> all[o + 1]]
\* the block-table entry n of buffer b is zero throughout
ZeroBlock(b, n) ==
    /\ b.fill = 0
    /\ \A l \in 1..Len(b.layers) :
          (b.layers[l].at < BlockStart(n + 1) /\ b.layers[l].at + b.layers[l].n > BlockStart(n))
          => /\ b.layers[l].kind = "data"
             /\ \A d \in 1..Len(b.layers[l].data) : b.layers[l].data[d] = 0

\* the template leaves entry k of slot i unset (31 or more, the fill pattern
\* included), or pointing at a block that is zero at every sub-offset
MustBeDefaulted(g, i, k) ==
    \/ ~ULess(TemplateIndex(g, i, k), 31)
    \/ ZeroBlock(g.tmpl, TemplateIndex(g, i, k))

\* C18: for a team-file team each block-reference entry of its slot is set to the
\* default of its position exactly when the index the template left is 31 or more,
\* is the fill pattern, or points at a block with a zero byte at the name sub-offset.
\* (Stated for the entries that must be defaulted wherever the sub-offset lies: the
\* unset ones and those pointing at a block that is zero throughout.)
UnsetEntriesDefaulted ==
    (gen.called /\ ~gen.err)
    => \A i \in 0..(Len(Written(gen)) - 1) : \A k \in 0..2 :
          (FromTeamFile(gen.teams[i + 1]) /\ MustBeDefaulted(gen, i, k))
          => EntryBytes(gen.output, i, k) = DefaultEntry(k)

\* the same for the two values the generator tests for, 0xFFFFFFFF and 0xCDCDCDCD
UnsetOrFillEntriesDefaulted ==
    (gen.called /\ ~gen.err)
    => \A i \in 0..(Len(Written(gen)) - 1) : \A k \in 0..2 :
          FromTeamFile(gen.teams[i + 1])
          => IF TemplateIndex(gen, i, k) \in {UNSET, FILL_CD}
             THEN EntryBytes(gen.output, i, k) = DefaultEntry(k)
             ELSE EntryBytes(gen.output, i, k) = EntryBytes(gen.tmpl, i, k)

\* the type tag and the active flag of an entry
TagAndFlag(b, i, k) == [o \in 4..11 |-> ByteAt(b, EntryStart(i, k) + o)]
ValidTagAndFlag == [o \in 4..11 |-> (OKE_MAGIC \o OKE_FLAG)[o - 3]]

\* C19: for a team-file team an entry whose template index is valid (below 31) but
\* whose type tag or active flag differs from the constants gets exactly those 8
\* bytes set and keeps its index, so every entry of the slot carries the valid tag
\* and flag
ValidEntriesCarryTagAndFlag ==
    (gen.called /\ ~gen.err)
    => \A i \in 0..(Len(Written(gen)) - 1) : \A k \in 0..2 :
          FromTeamFile(gen.teams[i + 1])
          => /\ TagAndFlag(gen.output, i, k) = ValidTagAndFlag
             /\ ULess(TemplateIndex(gen, i, k), 31)
                => OutRef(gen, i, k) = TemplateIndex(gen, i, k)

\* the number (from 0) of the pair i < j in row-major upper-triangular order over n
\* teams, and the 2-bit value stored for pair number p, four to a byte from the low
\* bits upwards
PairNumber(n, i, j) == i * n - ((i * (i + 1)) \div 2) + (j - i - 1)
StoredPair(packed, p) == (packed[(p \div 4) + 1] \div (4 ^ (p % 4))) % 4

\* C20: for every team count from 0 to 16 and every pair i < j below it, the decoded
\* entry M[i][j] is the 2-bit value stored for the pair, the pairs being numbered in
\* row-major upper-triangular order over the 16 teams of the format
MatrixEntriesAreStoredPairs ==
    matrix.op = "decoded"
    => /\ DOMAIN matrix.results = 0..(matrix.teamCount - 1)
       /\ \A i, j \in 0..(matrix.teamCount - 1) :
            i < j => matrix.results[i][j]
                       = StoredPair(matrix.packed, PairNumber(MAX_SLOTS, i, j))

\* the same with the pairs numbered over 15 teams, for team counts up to 15
MatrixEntriesAreStoredPairsOf15 ==
    (matrix.op = "decoded" /\ matrix.teamCount <= MATRIX_TEAMS)
    => /\ DOMAIN matrix.results = 0..(matrix.teamCount - 1)
       /\ \A i, j \in 0..(matrix.teamCount - 1) :
            i < j => matrix.results[i][j]
                       = StoredPair(matrix.packed, PairNumber(MATRIX_TEAMS, i, j))

\* for 16 teams no entry of the 16th team is decoded, whatever is stored
SixteenthTeamIsNotDecoded ==
    (matrix.op = "decoded" /\ matrix.teamCount = MAX_SLOTS)
    => \A i \in 0..(MAX_SLOTS - 1) :
          matrix.results[i][MAX_SLOTS - 1] = 0 /\ matrix.results[MAX_SLOTS - 1][i] = 0

\* the number of leading slots below teamCount that lie entirely inside len bytes
SlotsInside(teamCount, len) ==
    Cardinality({i \in 0..(teamCount - 1) : SLOT_START_OFFSET + (i + 1) * SLOT_SIZE <= len})

\* C21: for every buffer and team count the matrix the tournament parser returns is
\* teamCount x teamCount (empty for a count below 1), mirrored on every off-diagonal
\* pair, and all none when the buffer ends at or before the offset of the results
ParsedMatrixSquareAndMirrored ==
    matrix.op = "parsed"
    => /\ matrix.type = "match"
       /\ DOMAIN matrix.results = 0..(matrix.teamCount - 1)
       /\ \A i \in DOMAIN matrix.results :
             DOMAIN matrix.results[i] = 0..(matrix.teamCount - 1)
       /\ Mirrored(matrix.results)
       /\ matrix.len <= matchStartOffset
          => \A i, j \in DOMAIN matrix.results : matrix.results[i][j] = 0

\* a buffer that holds part of the packed results was parsed for 4 teams or more
\* and a win with its loss was returned
PartialResultsParsed ==
    /\ matrix.op = "parsed" /\ matrix.teamCount >= 4
    /\ matrix.len > matchStartOffset /\ matrix.len < matchStartOffset + 30
    /\ \E i, j \in DOMAIN matrix.results :
          matrix.results[i][j] = 1 /\ matrix.results[j][i] = 2

\* C24: parsing a tournament buffer does not fail when the declared team count
\* exceeds what the buffer holds: the teams returned are those of the leading slots
\* below the count that lie entirely inside the buffer, in slot order
ParseStopsAtBufferEnd ==
    matrix.op = "parsed"
    => /\ matrix.type = "match"
       /\ matrix.len >= 56 => matrix.teamCount = matrix.declared
       /\ Len(matrix.names) = SlotsInside(matrix.teamCount, matrix.len)
       /\ \A k \in 1..Min2(Len(matrix.names), MAX_SLOTS) : matrix.names[k] = SlotNames[k]

\* a buffer that ends inside its fourth slot was parsed for more than 3 teams
DeclaredMoreThanHeld ==
    /\ matrix.op = "parsed" /\ matrix.teamCount > 3
    /\ matrix.len = SLOT_START_OFFSET + 3 * SLOT_SIZE
    /\ Len(matrix.names) = 3

\* C22: in both decoders a zero byte ends decoding: the string decoded from a byte
\* sequence is the one decoded from its bytes before the first 0x00
ZeroByteTerminatesDecoding ==
    codec.op = "decoded" => codec.text = codec.head

\* the same where TextDecoder exists
ZeroByteTerminatesNativeDecoding ==
    (codec.op = "decoded" /\ codec.backend = "TextDecoder") => codec.text = codec.head

\* the same for the table decoder when no 0x00 follows a byte above 0x7F that is not
\* a half-width kana
ZeroByteTerminatesAfterSingleByte ==
    (/\ codec.op = "decoded" /\ codec.backend = "table"
     /\ \A k \in 2..Len(codec.bytes) :
           codec.bytes[k] = 0 => (codec.bytes[k - 1] <= 127 \/ codec.bytes[k - 1] \in 161..223))
    => codec.text = codec.head

\* the characters the encoder gives a double-byte code
DoubleByte(c) == HasCode(c) /\ ~SingleByte(c)

\* C23: with the table decoder, decoding the encoding of a character that has a
\* double-byte code gives the character back
DoubleByteRoundTrip ==
    (/\ codec.op = "coded" /\ codec.backend = "table"
     /\ Len(codec.str) = 1 /\ DoubleByte(codec.str[1]))
    => /\ Len(codec.bytes) = 2
       /\ codec.text = codec.str

\* the same without the last hiragana U+3093, the last katakana U+30F6 and the
\* ideographs of the table
DoubleByteRoundTripInsideTable ==
    (/\ codec.op = "coded" /\ codec.backend = "table"
     /\ Len(codec.str) = 1 /\ DoubleByte(codec.str[1])
     /\ codec.str[1] \notin {12435, 12534} \cup DOMAIN UNICODE_TO_SJIS_MAP)
    => /\ Len(codec.bytes) = 2
       /\ codec.text = codec.str

\* C25: a team parsed from a team file and written by generateMatchFile is parsed
\* back from its slot with the name, owner and primary color the team-file parse
\* returned, whatever the name and owner fields hold and at every slot 0..15
TeamFileTeamsRoundTrip ==
    (gen.called /\ ~gen.err /\ readBack # NoParse)
    => \A k \in 1..Min2(Len(gen.teams), MAX_SLOTS) :
          FromTeamFile(gen.teams[k])
          => /\ k <= Len(readBack.teams)
             /\ readBack.teams[k] = TeamSummary(gen.teams[k])

\* the same for the slots 0..14 and a name that ends with a zero byte within its
\* 24-byte field
ShortNamesRoundTripBeforeMatrix ==
    (gen.called /\ ~gen.err /\ readBack # NoParse)
    => \A k \in 1..Min2(Len(gen.teams), MATRIX_TEAMS) :
          (/\ FromTeamFile(gen.teams[k])
           /\ \E o \in 640..663 : ByteAt(gen.teams[k].rawBuffer, o) = 0)
          => /\ k <= Len(readBack.teams)
             /\ readBack.teams[k] = TeamSummary(gen.teams[k])

\* C26: a file saved in the team-concatenation format holds no team that came from a
\* tournament file (saveCHE rejects such an output list with the error toast)
TeamFormatSaveRejectsMatchTeams ==
    teamFile.called => \A k \in 1..Len(teamFile.teams) : ~teamFile.teams[k].isMatchDerived

\* C27: an editor handler that leaves the output list as it is leaves the viewer's
\* team list and both result matrices as they are
EditorKeepsResults ==
    [][(edits' # edits /\ loadedFiles' = loadedFiles /\ outputTeams' = outputTeams)
          => UNCHANGED <<viewerTeams, resultsAsc, resultsDesc>>]_vars

\* a matrix with rows and columns 0..n-1
IsSquare(m, n) == DOMAIN m = 0..(n - 1) /\ \A i \in DOMAIN m : DOMAIN m[i] = 0..(n - 1)

\* C28: both result matrices are square with as many rows as the viewer has teams
MatricesSquare ==
    /\ IsSquare(resultsAsc, Len(viewerTeams))
    /\ IsSquare(resultsDesc, Len(viewerTeams))

\* the same for the sessions in which every loaded tournament file holds all the
\* slots its header declares
MatricesSquareForWholeFiles ==
    (\A k \in 1..Len(loadedFiles) : loadedFiles[k][1] # 9) => MatricesSquare

\* C30: the output list holds at most 16 teams, no two of them with the same
\* globalIndex, and every selected index is an index of its list
EditorListsValid ==
    /\ Len(outputTeams) <= 16
    /\ \A i, j \in 1..Len(outputTeams) :
          outputTeams[i].globalIndex = outputTeams[j].globalIndex => i = j
    /\ \A k \in 1..Len(selectedSource) : selectedSource[k] \in 0..(Len(sourceTeams) - 1)
    /\ \A k \in 1..Len(selectedOutput) : selectedOutput[k] \in 0..(Len(outputTeams) - 1)

\* addTeams has passed over a selected team because the output list was full
OutputListFull ==
    /\ Len(outputTeams) = 16
    /\ Len(sourceTeams) > 16
    /\ toast = [type |-> "error", file |-> 0, kind |-> "max16"]

\* the teams of the standings in their order
OrderOf(rows) == [k \in 1..Len(rows) |-> rows[k].index]

\* C29: in manual-order mode a recalculation over the same teams keeps the order of
\* the standings and numbers the ranks 1..n
ManualOrderKept ==
    [][(/\ isManualOrder
        /\ Len(standings) = Len(viewerTeams)
        /\ \E dataSource \in DataSources, pts \in PointSettings : Calculate(dataSource, pts))
          => /\ OrderOf(standings') = OrderOf(standings)
             /\ \A k \in 1..Len(standings') : standings'[k].rank = k]_vars

\* what a recalculation in manual-order mode leaves: the teams in the order of the
\* team list, with the ranks 1..n
ManualRecalculationInTeamOrder ==
    [][(/\ isManualOrder
        /\ \E dataSource \in DataSources, pts \in PointSettings : Calculate(dataSource, pts))
          => \A k \in 1..Len(standings') :
                standings'[k].index = k - 1 /\ standings'[k].rank = k]_vars
====
